---- MODULE Spec2Model ----
(***************************************************************************)
(* RT_Flow: the event-sourced workflow engine (rt-workflow), its SQLite    *)
(* store (rt-core schema), block alignment and token diff (rt-compare),    *)
(* and conflict detection, merge and the conflict-resolution state         *)
(* machine (rt-merge).                                                     *)
(*                                                                         *)
(* The specifications share the variables:                                 *)
(*   SpecConc    several pooled connections; every SQL statement of a call *)
(*               is its own autocommit transaction, so calls interleave    *)
(*               statement by statement, a statement may fail and the      *)
(*               process may terminate between two statements.             *)
(*   SpecSeq     the same statements issued by one caller on one           *)
(*               connection.                                               *)
(*   SpecPure    the pure validators applied to every input.               *)
(*   SpecAlign   align_blocks applied to every pair of block lists.        *)
(*   SpecDiff    token_diff and the diff-to-delta conversion applied to    *)
(*               every pair of token sequences.                            *)
(*   SpecDetect  detect_conflicts applied to every pair of delta lists.    *)
(*   SpecMerge   MergeEngine::merge applied to every pair of documents.    *)
(*   SpecResolve sequences of resolve_conflict calls on one conflict.      *)
(*   SpecLive    validate_transition called again and again, each call     *)
(*               with the state the last accepted event gave, with weak    *)
(*               fairness on the events that change the state.             *)
(*   SpecStore   the block store: insert_document, and insert, update,     *)
(*               delete and load of blocks and their tokens, statement by  *)
(*               statement.                                                *)
(*   SpecCompare CompareEngine::compare with its parallel workers          *)
(*               finishing in every order.                                 *)
(*                                                                         *)
(* Rust indices are kept 0-based in every value the code returns; At reads *)
(* a sequence at a 0-based index.  A similarity is the exact fraction      *)
(* [num, den].  A text is the sequence of its words.  A SHA-256 digest is  *)
(* identified with the string that was hashed.                             *)
(***************************************************************************)
EXTENDS Integers, Sequences, FiniteSets, TLC

VARIABLES workflows, workflow_events, documents, blocks, tokens, clock, result, conn, call

vars == <<workflows, workflow_events, documents, blocks, tokens, clock, result, conn, call>>

\* ------------------------------------------------------------------------
\* Bounds
\* ------------------------------------------------------------------------
MaxWorkflows == 1
MaxConns == 2
MaxConcClock == 3

WorkflowIds == 1..MaxWorkflows
Conns == 1..MaxConns

\* ------------------------------------------------------------------------
\* Closed sum types, by their stored string form
\* ------------------------------------------------------------------------
WorkflowState ==
    { "DRAFT", "COMPARE_RUNNING", "FLOW_CREATED", "IN_REVIEW", "REVIEW_CLOSED",
      "COMPILING_EDITS", "READY_FOR_FINALIZATION", "COMPLETED", "ABORTED" }

EventType ==
    { "workflow_created", "compare_started", "compare_completed", "flow_created",
      "review_started", "reviewer_assigned", "delta_submitted", "review_closed",
      "edit_compilation_started", "edit_compilation_completed",
      "finalization_ready", "workflow_completed", "workflow_aborted" }

ConflictResolution == { "pending", "accepted_base", "accepted_incoming", "manual" }

Ok(v) == [ok |-> TRUE, val |-> v]
Err(kind) == [ok |-> FALSE, err |-> kind]

\* ------------------------------------------------------------------------
\* validator.rs
\* ------------------------------------------------------------------------
\* the table without the arm for COMPILING_EDITS
validate_transition_dead_end(current, event) ==
    CASE current = "DRAFT" ->
             (CASE event = "workflow_created" -> Ok("DRAFT")
                [] event = "compare_started" -> Ok("COMPARE_RUNNING")
                [] event = "workflow_aborted" -> Ok("ABORTED")
                [] OTHER -> Err("InvalidInput"))
      [] current = "COMPARE_RUNNING" ->
             (CASE event = "compare_completed" -> Ok("FLOW_CREATED")
                [] OTHER -> Err("InvalidInput"))
      [] current = "FLOW_CREATED" ->
             (CASE event = "review_started" -> Ok("IN_REVIEW")
                [] OTHER -> Err("InvalidInput"))
      [] current = "IN_REVIEW" ->
             (CASE event = "reviewer_assigned" -> Ok("IN_REVIEW")
                [] event = "delta_submitted" -> Ok("IN_REVIEW")
                [] event = "review_closed" -> Ok("REVIEW_CLOSED")
                [] event = "workflow_aborted" -> Ok("ABORTED")
                [] OTHER -> Err("InvalidInput"))
      [] current = "REVIEW_CLOSED" ->
             (CASE event = "edit_compilation_started" -> Ok("COMPILING_EDITS")
                [] event = "workflow_aborted" -> Ok("ABORTED")
                [] OTHER -> Err("InvalidInput"))
      [] current = "COMPILING_EDITS" -> Err("InvalidInput")
      [] current = "READY_FOR_FINALIZATION" ->
             (CASE event = "workflow_completed" -> Ok("COMPLETED")
                [] OTHER -> Err("InvalidInput"))
      [] current = "COMPLETED" -> Err("InvalidInput")
      [] current = "ABORTED" -> Err("InvalidInput")
      [] OTHER -> Err("InvalidInput")

\* match (current, event): the arms grouped by current state
validate_transition_abort_anywhere(current, event) ==
    CASE current = "DRAFT" ->
             (CASE event = "workflow_created" -> Ok("DRAFT")
                [] event = "compare_started" -> Ok("COMPARE_RUNNING")
                [] event = "workflow_aborted" -> Ok("ABORTED")
                [] OTHER -> Err("InvalidInput"))
      [] current = "COMPARE_RUNNING" ->
             (CASE event = "compare_completed" -> Ok("FLOW_CREATED")
                [] event = "workflow_aborted" -> Ok("ABORTED")
                [] OTHER -> Err("InvalidInput"))
      [] current = "FLOW_CREATED" ->
             (CASE event = "review_started" -> Ok("IN_REVIEW")
                [] event = "workflow_aborted" -> Ok("ABORTED")
                [] OTHER -> Err("InvalidInput"))
      [] current = "IN_REVIEW" ->
             (CASE event = "reviewer_assigned" -> Ok("IN_REVIEW")
                [] event = "delta_submitted" -> Ok("IN_REVIEW")
                [] event = "review_closed" -> Ok("REVIEW_CLOSED")
                [] event = "workflow_aborted" -> Ok("ABORTED")
                [] OTHER -> Err("InvalidInput"))
      [] current = "REVIEW_CLOSED" ->
             (CASE event = "edit_compilation_started" -> Ok("COMPILING_EDITS")
                [] event = "workflow_aborted" -> Ok("ABORTED")
                [] OTHER -> Err("InvalidInput"))
      [] current = "COMPILING_EDITS" ->
             (CASE event = "edit_compilation_completed" -> Ok("READY_FOR_FINALIZATION")
                [] event = "workflow_aborted" -> Ok("ABORTED")
                [] OTHER -> Err("InvalidInput"))
      [] current = "READY_FOR_FINALIZATION" ->
             (CASE event = "workflow_completed" -> Ok("COMPLETED")
                [] event = "workflow_aborted" -> Ok("ABORTED")
                [] OTHER -> Err("InvalidInput"))
      [] current = "COMPLETED" -> Err("InvalidInput")
      [] current = "ABORTED" -> Err("InvalidInput")
      [] OTHER -> Err("InvalidInput")

validate_transition(current, event) ==
    CASE current = "DRAFT" ->
             (CASE event = "workflow_created" -> Ok("DRAFT")
                [] event = "compare_started" -> Ok("COMPARE_RUNNING")
                [] event = "workflow_aborted" -> Ok("ABORTED")
                [] OTHER -> Err("InvalidInput"))
      [] current = "COMPARE_RUNNING" ->
             (CASE event = "compare_completed" -> Ok("FLOW_CREATED")
                [] OTHER -> Err("InvalidInput"))
      [] current = "FLOW_CREATED" ->
             (CASE event = "review_started" -> Ok("IN_REVIEW")
                [] OTHER -> Err("InvalidInput"))
      [] current = "IN_REVIEW" ->
             (CASE event = "reviewer_assigned" -> Ok("IN_REVIEW")
                [] event = "delta_submitted" -> Ok("IN_REVIEW")
                [] event = "review_closed" -> Ok("REVIEW_CLOSED")
                [] event = "workflow_aborted" -> Ok("ABORTED")
                [] OTHER -> Err("InvalidInput"))
      [] current = "REVIEW_CLOSED" ->
             (CASE event = "edit_compilation_started" -> Ok("COMPILING_EDITS")
                [] event = "workflow_aborted" -> Ok("ABORTED")
                [] OTHER -> Err("InvalidInput"))
      [] current = "COMPILING_EDITS" ->
             (CASE event = "edit_compilation_completed" -> Ok("READY_FOR_FINALIZATION")
                [] OTHER -> Err("InvalidInput"))
      [] current = "READY_FOR_FINALIZATION" ->
             (CASE event = "workflow_completed" -> Ok("COMPLETED")
                [] OTHER -> Err("InvalidInput"))
      [] current = "COMPLETED" -> Err("InvalidInput")
      [] current = "ABORTED" -> Err("InvalidInput")
      [] OTHER -> Err("InvalidInput")

\* ------------------------------------------------------------------------
\* resolution.rs
\* ------------------------------------------------------------------------
validate_resolution_allow_reresolve(current, target) ==
    IF current = target
    THEN Err("InvalidInput")
    ELSE CASE current = "pending" /\ target \in {"accepted_base", "accepted_incoming", "manual"} -> Ok("unit")
           [] target = "pending" -> Err("InvalidInput")
           [] OTHER -> Ok("unit")

validate_resolution(current, target) ==
    IF current = target
    THEN Err("InvalidInput")
    ELSE CASE current = "pending" /\ target \in {"accepted_base", "accepted_incoming", "manual"} -> Ok("unit")
           [] target = "pending" -> Err("InvalidInput")
           [] OTHER -> Err("InvalidInput")

\* ------------------------------------------------------------------------
\* projector.rs
\* ------------------------------------------------------------------------
\* Vec::sort_by_key(|e| e.seq): a stable sort, events of equal seq keep the
\* order in which they were delivered.
InsertByKey(sorted, e) ==
    LET k == Cardinality({ i \in 1..Len(sorted) : sorted[i].seq <= e.seq })
    IN SubSeq(sorted, 1, k) \o <<e>> \o SubSeq(sorted, k + 1, Len(sorted))

RECURSIVE sort_by_key(_)
sort_by_key(events) ==
    IF \A i \in 1..(Len(events) - 1) : events[i].seq <= events[i + 1].seq
    THEN events
    ELSE InsertByKey(sort_by_key(SubSeq(events, 1, Len(events) - 1)), events[Len(events)])

RECURSIVE Replay(_, _, _)
Replay(current, sorted_events, i) ==
    IF i > Len(sorted_events) THEN Ok(current)
    ELSE LET new_state == validate_transition(current.state, sorted_events[i].event_type)
         IN IF ~new_state.ok THEN new_state
            ELSE Replay([current EXCEPT !.state = new_state.val,
                                        !.updated_at = sorted_events[i].created_at],
                        sorted_events, i + 1)

project_state(workflow, events) == Replay(workflow, sort_by_key(events), 1)

\* ------------------------------------------------------------------------
\* The store: tables workflows and workflow_events (schema.rs).
\* workflows is keyed by its PRIMARY KEY id; workflow_events is the list of
\* rows in rowid order.  The index on (workflow_id, seq) is not UNIQUE.
\* ------------------------------------------------------------------------
NoConn == [pc |-> "idle", wf |-> 0, doc |-> "none", ev |-> "none", new_state |-> "none",
           seq |-> 0, now |-> 0, created_at |-> 0]
NoCall == [fn |-> "none"]
NoResult == [op |-> "none"]

insert_workflow(rows, id, now) ==
    [w \in DOMAIN rows \cup {id} |->
        IF w = id THEN [state |-> "DRAFT", created_at |-> now, updated_at |-> now]
        ELSE rows[w]]

insert_event(events, id, event_type, now, seq) ==
    Append(events, [workflow_id |-> id, event_type |-> event_type,
                    created_at |-> now, seq |-> seq])

update_workflow(rows, id, new_state, now) ==
    [rows EXCEPT ![id] = [@ EXCEPT !.state = new_state, !.updated_at = now]]

\* SELECT ... WHERE workflow_id = ?1 (rowid order)
EventsOf(events, workflow_id) ==
    SelectSeq(events, LAMBDA r : r.workflow_id = workflow_id)

\* ... ORDER BY seq ASC: the index scan delivers equal seq in rowid order
get_events(events, workflow_id) == sort_by_key(EventsOf(events, workflow_id))

SetMax(S) == CHOOSE m \in S : \A x \in S : x <= m

next_seq(events, workflow_id) ==
    LET evs == EventsOf(events, workflow_id)
        seqs == { evs[i].seq : i \in 1..Len(evs) }
    IN (IF seqs = {} THEN 0 ELSE SetMax(seqs)) + 1

\* get_workflow with nothing written between its two SELECTs
get_workflow(rows, events, workflow_id) ==
    IF workflow_id \notin DOMAIN rows THEN Err("NotFound")
    ELSE LET base == [state |-> "DRAFT", updated_at |-> rows[workflow_id].created_at]
         IN project_state(base, get_events(events, workflow_id))

DocumentIds == { "doc-1", "doc-2" }

\* Uuid::new_v4(): an id no row and no call in flight carries
FreshIds == { w \in WorkflowIds :
                /\ w \notin DOMAIN workflows
                /\ \A c \in Conns : conn[c].wf # w }
FreshId == CHOOSE w \in FreshIds : \A v \in FreshIds : w <= v

\* the document the workflows are created for (workflows.document_id
\* REFERENCES documents(id))
DocumentId == "doc-1"

\* the store with that document inserted, no workflow yet
Init ==
    /\ workflows = <<>>
    /\ workflow_events = <<>>
    /\ documents = {DocumentId}
    /\ blocks = <<>>
    /\ tokens = <<>>
    /\ clock = 0
    /\ result = NoResult
    /\ conn = [c \in Conns |-> NoConn]
    /\ call = NoCall

\* ------------------------------------------------------------------------
\* commands.rs over the connection pool (db.rs create_pool, ffi.rs): no call
\* opens a transaction, so every conn.execute / query is committed on its
\* own and the statements of concurrent calls interleave.
\* ------------------------------------------------------------------------
Idle(c) == conn[c].pc = "idle"

\* The id of a workflow is known to callers only once create_workflow is over.
InCreate(workflow_id) ==
    \E c \in Conns : /\ conn[c].wf = workflow_id
                     /\ conn[c].pc \in {"create_insert_workflow", "create_insert_event"}

\* Workflow::new(document_id, ..): fresh id, now = Utc::now()
create_workflow_begin(c, document_id) ==
    /\ Idle(c)
    /\ FreshIds # {}
    /\ clock < MaxConcClock
    /\ clock' = clock + 1
    /\ conn' = [conn EXCEPT ![c] = [NoConn EXCEPT !.pc = "create_insert_workflow",
                                                  !.wf = FreshId,
                                                  !.doc = document_id,
                                                  !.now = clock + 1]]
    /\ UNCHANGED <<documents, blocks, tokens, workflows, workflow_events, result, call>>

\* INSERT INTO workflows: document_id REFERENCES documents(id)
create_workflow_insert_workflow(c) ==
    /\ conn[c].pc = "create_insert_workflow"
    /\ IF conn[c].doc \notin documents
       THEN /\ result' = [op |-> "create_workflow", ret |-> Err("Database")]
            /\ conn' = [conn EXCEPT ![c] = NoConn]
            /\ UNCHANGED workflows
       ELSE /\ workflows' = insert_workflow(workflows, conn[c].wf, conn[c].now)
            /\ conn' = [conn EXCEPT ![c].pc = "create_insert_event"]
            /\ UNCHANGED result
    /\ UNCHANGED <<documents, blocks, tokens, workflow_events, clock, call>>

\* INSERT INTO workflow_events ... seq = 1; Ok(wf)
create_workflow_insert_event(c) ==
    /\ conn[c].pc = "create_insert_event"
    /\ workflow_events' = insert_event(workflow_events, conn[c].wf,
                                       "workflow_created", conn[c].now, 1)
    /\ result' = [op |-> "create_workflow",
                  ret |-> Ok([state |-> "DRAFT", updated_at |-> conn[c].now])]
    /\ conn' = [conn EXCEPT ![c] = NoConn]
    /\ UNCHANGED <<documents, blocks, tokens, workflows, clock, call>>

\* get_workflow, first statement: SELECT ... FROM workflows WHERE id = ?1
load_row(c, workflow_id, event_type, op, then) ==
    IF workflow_id \notin DOMAIN workflows
    THEN /\ result' = [op |-> op, ret |-> Err("NotFound")]
         /\ conn' = [conn EXCEPT ![c] = NoConn]
    ELSE /\ conn' = [conn EXCEPT ![c] =
                        [NoConn EXCEPT !.pc = then,
                                       !.wf = workflow_id,
                                       !.ev = event_type,
                                       !.created_at = workflows[workflow_id].created_at]]
         /\ UNCHANGED result

\* get_workflow, second statement and the replay: get_events, project_state
\* from the base built from the row read before
load_events(c) ==
    project_state([state |-> "DRAFT", updated_at |-> conn[c].created_at],
                  get_events(workflow_events, conn[c].wf))

\* let current = Self::get_workflow(conn, workflow_id)?  (the row)
submit_event_load(c, workflow_id, event_type) ==
    /\ Idle(c)
    /\ ~InCreate(workflow_id)
    /\ load_row(c, workflow_id, event_type, "submit_event", "submit_load_events")
    /\ UNCHANGED <<documents, blocks, tokens, workflows, workflow_events, clock, call>>

\* ... (the events) ; validate_transition(&current.state, &event_type)?
submit_event_validate(c) ==
    /\ conn[c].pc = "submit_load_events"
    /\ \E current \in {load_events(c)} :
          IF ~current.ok
          THEN /\ result' = [op |-> "submit_event", ret |-> current]
               /\ conn' = [conn EXCEPT ![c] = NoConn]
          ELSE \E new_state \in {validate_transition(current.val.state, conn[c].ev)} :
          IF ~new_state.ok
          THEN /\ result' = [op |-> "submit_event", ret |-> new_state]
               /\ conn' = [conn EXCEPT ![c] = NoConn]
          ELSE /\ conn' = [conn EXCEPT ![c].pc = "submit_next_seq",
                                       ![c].new_state = new_state.val]
               /\ UNCHANGED result
    /\ UNCHANGED <<documents, blocks, tokens, workflows, workflow_events, clock, call>>

\* next_seq(conn, workflow_id)?: SELECT MAX(seq)
submit_event_next_seq(c) ==
    /\ conn[c].pc = "submit_next_seq"
    /\ conn' = [conn EXCEPT ![c].pc = "submit_now",
                            ![c].seq = next_seq(workflow_events, conn[c].wf)]
    /\ UNCHANGED <<documents, blocks, tokens, workflows, workflow_events, clock, result, call>>

\* let now = Utc::now()
submit_event_now(c) ==
    /\ conn[c].pc = "submit_now"
    /\ clock < MaxConcClock
    /\ clock' = clock + 1
    /\ conn' = [conn EXCEPT ![c].pc = "submit_insert",
                            ![c].now = clock + 1]
    /\ UNCHANGED <<documents, blocks, tokens, workflows, workflow_events, result, call>>

\* INSERT INTO workflow_events
submit_event_insert(c) ==
    /\ conn[c].pc = "submit_insert"
    /\ workflow_events' = insert_event(workflow_events, conn[c].wf, conn[c].ev,
                                       conn[c].now, conn[c].seq)
    /\ conn' = [conn EXCEPT ![c].pc = "submit_update"]
    /\ UNCHANGED <<documents, blocks, tokens, workflows, clock, result, call>>

\* UPDATE workflows SET state, updated_at
submit_event_update(c) ==
    /\ conn[c].pc = "submit_update"
    /\ workflows' = update_workflow(workflows, conn[c].wf, conn[c].new_state, conn[c].now)
    /\ conn' = [conn EXCEPT ![c].pc = "submit_reload"]
    /\ UNCHANGED <<documents, blocks, tokens, workflow_events, clock, result, call>>

\* Self::get_workflow(conn, workflow_id)  (the row)
submit_event_reload(c) ==
    /\ conn[c].pc = "submit_reload"
    /\ load_row(c, conn[c].wf, conn[c].ev, "submit_event", "submit_reload_events")
    /\ UNCHANGED <<documents, blocks, tokens, workflows, workflow_events, clock, call>>

\* ... (the events and the replay): the value submit_event returns
submit_event_return(c) ==
    /\ conn[c].pc = "submit_reload_events"
    /\ result' = [op |-> "submit_event", ret |-> load_events(c)]
    /\ conn' = [conn EXCEPT ![c] = NoConn]
    /\ UNCHANGED <<documents, blocks, tokens, workflows, workflow_events, clock, call>>

\* WorkflowEngine::get_workflow called by a reader (ffi.rs
\* rtflow_workflow_state): the row
get_workflow_load(c, workflow_id) ==
    /\ Idle(c)
    /\ ~InCreate(workflow_id)
    /\ load_row(c, workflow_id, "none", "get_workflow", "get_load_events")
    /\ UNCHANGED <<documents, blocks, tokens, workflows, workflow_events, clock, call>>

\* ... (the events and the replay)
get_workflow_return(c) ==
    /\ conn[c].pc = "get_load_events"
    /\ result' = [op |-> "get_workflow", ret |-> load_events(c)]
    /\ conn' = [conn EXCEPT ![c] = NoConn]
    /\ UNCHANGED <<documents, blocks, tokens, workflows, workflow_events, clock, call>>

\* the call whose statement a connection is about to run
OpOf(pc) ==
    CASE pc \in {"create_insert_workflow", "create_insert_event"} -> "create_workflow"
      [] pc = "get_load_events" -> "get_workflow"
      [] pc = "insert_token" -> "insert_block"
      [] pc = "get_tokens" -> "get_block"
      [] OTHER -> "submit_event"

\* the first statement of a call fails: Err(Database), nothing was written
first_statement_fails(c, op) ==
    /\ Idle(c)
    /\ result' = [op |-> op, ret |-> Err("Database")]
    /\ UNCHANGED <<documents, blocks, tokens, workflows, workflow_events, clock, conn, call>>

\* a later conn.execute(...)? or query returns Err(Database): the call ends
\* where it is and the statements it already ran stay committed.  Utc::now()
\* is no statement.
statement_fails(c) ==
    /\ ~Idle(c)
    /\ conn[c].pc # "submit_now"
    /\ result' = [op |-> OpOf(conn[c].pc), ret |-> Err("Database")]
    /\ conn' = [conn EXCEPT ![c] = NoConn]
    /\ UNCHANGED <<documents, blocks, tokens, workflows, workflow_events, clock, call>>

\* The process terminates: every call in flight is lost, the store stays.
terminate ==
    /\ \E c \in Conns : ~Idle(c)
    /\ conn' = [c \in Conns |-> NoConn]
    /\ result' = NoResult
    /\ UNCHANGED <<documents, blocks, tokens, workflows, workflow_events, clock, call>>

NextConc ==
    \/ \E c \in Conns, d \in DocumentIds : create_workflow_begin(c, d)
    \/ \E c \in Conns : create_workflow_insert_workflow(c)
    \/ \E c \in Conns : create_workflow_insert_event(c)
    \/ \E c \in Conns, w \in WorkflowIds, e \in EventType : submit_event_load(c, w, e)
    \/ \E c \in Conns : submit_event_validate(c)
    \/ \E c \in Conns : submit_event_next_seq(c)
    \/ \E c \in Conns : submit_event_now(c)
    \/ \E c \in Conns : submit_event_insert(c)
    \/ \E c \in Conns : submit_event_update(c)
    \/ \E c \in Conns : submit_event_reload(c)
    \/ \E c \in Conns : submit_event_return(c)
    \/ \E c \in Conns, w \in WorkflowIds : get_workflow_load(c, w)
    \/ \E c \in Conns : get_workflow_return(c)
    \/ \E c \in Conns, op \in {"submit_event", "get_workflow"} : first_statement_fails(c, op)
    \/ \E c \in Conns : statement_fails(c)
    \/ terminate

SpecConc == Init /\ [][NextConc]_vars

\* ------------------------------------------------------------------------
\* One caller: the calls run one after the other on one connection, each
\* statement by statement; a statement may fail and the process may
\* terminate between two statements.
\* ------------------------------------------------------------------------
Caller == CHOOSE c \in Conns : \A d \in Conns : c <= d

NextSeq ==
    \/ \E d \in DocumentIds : create_workflow_begin(Caller, d)
    \/ create_workflow_insert_workflow(Caller)
    \/ create_workflow_insert_event(Caller)
    \/ \E w \in WorkflowIds, e \in EventType : submit_event_load(Caller, w, e)
    \/ submit_event_validate(Caller)
    \/ submit_event_next_seq(Caller)
    \/ submit_event_now(Caller)
    \/ submit_event_insert(Caller)
    \/ submit_event_update(Caller)
    \/ submit_event_reload(Caller)
    \/ submit_event_return(Caller)
    \/ first_statement_fails(Caller, "submit_event")
    \/ statement_fails(Caller)
    \/ terminate

SpecSeq == Init /\ [][NextSeq]_vars

\* ------------------------------------------------------------------------
\* The validators applied to every input
\* ------------------------------------------------------------------------
call_validate_transition(current, event) ==
    /\ call' = [fn |-> "validate_transition", current |-> current, event |-> event,
                ret |-> validate_transition(current, event)]
    /\ UNCHANGED <<documents, blocks, tokens, workflows, workflow_events, clock, result, conn>>

call_validate_resolution(current, target) ==
    /\ call' = [fn |-> "validate_resolution", current |-> current, target |-> target,
                ret |-> validate_resolution(current, target)]
    /\ UNCHANGED <<documents, blocks, tokens, workflows, workflow_events, clock, result, conn>>

NextPure ==
    \/ \E s \in WorkflowState, e \in EventType : call_validate_transition(s, e)
    \/ \E c \in ConflictResolution, t \in ConflictResolution : call_validate_resolution(c, t)

SpecPure == Init /\ [][NextPure]_vars

\* ------------------------------------------------------------------------
\* Properties
\* ------------------------------------------------------------------------
Terminal == { "COMPLETED", "ABORTED" }

LegalTriples ==
    { <<"DRAFT", "workflow_created", "DRAFT">>,
      <<"DRAFT", "compare_started", "COMPARE_RUNNING">>,
      <<"DRAFT", "workflow_aborted", "ABORTED">>,
      <<"COMPARE_RUNNING", "compare_completed", "FLOW_CREATED">>,
      <<"FLOW_CREATED", "review_started", "IN_REVIEW">>,
      <<"IN_REVIEW", "reviewer_assigned", "IN_REVIEW">>,
      <<"IN_REVIEW", "delta_submitted", "IN_REVIEW">>,
      <<"IN_REVIEW", "review_closed", "REVIEW_CLOSED">>,
      <<"IN_REVIEW", "workflow_aborted", "ABORTED">>,
      <<"REVIEW_CLOSED", "edit_compilation_started", "COMPILING_EDITS">>,
      <<"REVIEW_CLOSED", "workflow_aborted", "ABORTED">>,
      <<"COMPILING_EDITS", "edit_compilation_completed", "READY_FOR_FINALIZATION">>,
      <<"READY_FOR_FINALIZATION", "workflow_completed", "COMPLETED">> }

\* C1: validate_transition returns Ok(next) exactly for the 13 legal
\* (state, event, next) triples and an InvalidInput error for every other
\* pair of the 9 states and 13 event types.
C1_TransitionTable ==
    call.fn = "validate_transition" =>
        /\ Cardinality(LegalTriples) = 13
        /\ IF \E t \in LegalTriples : t[1] = call.current /\ t[2] = call.event
           THEN \E t \in LegalTriples :
                    /\ t[1] = call.current /\ t[2] = call.event
                    /\ call.ret = Ok(t[3])
           ELSE call.ret = Err("InvalidInput")

C1_Witness ==
    /\ call.fn = "validate_transition"
    /\ call.current = "IN_REVIEW"
    /\ call.event = "workflow_aborted"
    /\ call.ret = Ok("ABORTED")

EventCount(events, w) == Len(EventsOf(events, w))

Quiescent == \A c \in Conns : Idle(c)

\* C2: a submit_event whose event is illegal in the workflow's current state
\* (the projection of its log) returns InvalidInput and writes nothing: the
\* statements it runs leave the workflow rows (state, updated_at) and the
\* event log (number of events, maximum seq) as they were.
C2_IllegalSubmitMutatesNothing ==
    [][\A c \in Conns :
          /\ (\E w \in WorkflowIds, e \in EventType : submit_event_load(c, w, e)) =>
                /\ workflows' = workflows
                /\ workflow_events' = workflow_events
          /\ (/\ submit_event_validate(c)
              /\ load_events(c).ok
              /\ ~\E t \in LegalTriples : /\ t[1] = load_events(c).val.state
                                         /\ t[2] = conn[c].ev) =>
                /\ result' = [op |-> "submit_event", ret |-> Err("InvalidInput")]
                /\ conn'[c].pc = "idle"
                /\ workflows' = workflows
                /\ workflow_events' = workflow_events
                /\ EventCount(workflow_events', conn[c].wf)
                       = EventCount(workflow_events, conn[c].wf)
                /\ next_seq(workflow_events', conn[c].wf)
                       = next_seq(workflow_events, conn[c].wf)]_vars

C2_Witness ==
    /\ result = [op |-> "submit_event", ret |-> Err("InvalidInput")]
    /\ Quiescent
    /\ DOMAIN workflows = {1}
    /\ workflows[1].state = "COMPARE_RUNNING"
    /\ get_workflow(workflows, workflow_events, 1) = Ok([state |-> "COMPARE_RUNNING",
                                                         updated_at |-> workflows[1].updated_at])
    /\ EventCount(workflow_events, 1) = 2

\* C3: for every workflow no call is working on, replaying its events in seq
\* order from DRAFT through the validator succeeds and yields the state of
\* the stored row.
C3_ProjectionEqualsStored ==
    \A w \in DOMAIN workflows :
        (\A c \in Conns : conn[c].wf # w) =>
            LET p == get_workflow(workflows, workflow_events, w)
            IN /\ p.ok
               /\ p.val.state = workflows[w].state

SeqsContiguous(events, w) ==
    LET evs == EventsOf(events, w)
    IN \A k \in 1..Len(evs) : Cardinality({ i \in 1..Len(evs) : evs[i].seq = k }) = 1

\* C4: for every workflow no call is working on, the seq values of its events
\* are exactly 1..N without gap or repeat, and the workflow is COMPLETED with
\* no fewer than 8 events.
C4_SeqGapFree ==
    \A w \in DOMAIN workflows :
        (\A c \in Conns : conn[c].wf # w) =>
            /\ SeqsContiguous(workflow_events, w)
            /\ workflows[w].state = "COMPLETED" => EventCount(workflow_events, w) >= 8

\* C5: the event appended by submit_event and the update of the workflow row
\* are one atomic unit: in every state of the store the row's updated_at is
\* the created_at of the newest event of the workflow.
C5_EventAndRowAtomic ==
    \A w \in DOMAIN workflows :
        LET evs == EventsOf(workflow_events, w)
        IN evs # <<>> =>
              workflows[w].updated_at = SetMax({ evs[i].created_at : i \in 1..Len(evs) })

\* C6: (workflow_id, seq) is unique in the event store in every reachable
\* state, whatever the interleaving of concurrent submit_event calls.
C6_SeqUnique ==
    \A i \in 1..Len(workflow_events), j \in 1..Len(workflow_events) :
        (/\ workflow_events[i].workflow_id = workflow_events[j].workflow_id
         /\ workflow_events[i].seq = workflow_events[j].seq) => i = j

\* C7: COMPLETED and ABORTED are absorbing: once a workflow's row is in one
\* of them, every submit_event that starts on it fails with an error and
\* neither its row nor its event log changes again.
C7_TerminalAbsorbing ==
    [][\A w \in DOMAIN workflows :
          workflows[w].state \in Terminal =>
              /\ workflows'[w] = workflows[w]
              /\ EventsOf(workflow_events', w) = EventsOf(workflow_events, w)
              /\ \A c \in Conns :
                    (submit_event_validate(c) /\ conn[c].wf = w) =>
                        /\ conn'[c].pc = "idle"
                        /\ ~result'.ret.ok]_vars

\* C8: once create_workflow is over for a workflow (returned, failed or cut
\* by process termination), its row has exactly one event with seq = 1 and
\* that event has type workflow_created.
C8_ExactlyOneCreationEvent ==
    \A w \in DOMAIN workflows :
        ~InCreate(w) =>
            LET evs == EventsOf(workflow_events, w)
                first == { i \in 1..Len(evs) : evs[i].seq = 1 }
            IN /\ Cardinality(first) = 1
               /\ \A i \in first : evs[i].event_type = "workflow_created"

IndexPermutations(n) ==
    { f \in [1..n -> 1..n] : \A i \in 1..n, j \in 1..n : f[i] = f[j] => i = j }

\* every order in which the stored events of a workflow can be delivered
Deliveries(evs) ==
    { [i \in 1..Len(evs) |-> evs[f[i]]] : f \in IndexPermutations(Len(evs)) }

\* C9: the projection depends on the stored log only: delivering the events
\* of a workflow in any order gives the same result (state and updated_at).
C9_ProjectionOrderIndependent ==
    \A w \in DOMAIN workflows :
        LET base == [state |-> "DRAFT", updated_at |-> workflows[w].created_at]
            evs == EventsOf(workflow_events, w)
        IN \A d \in Deliveries(evs) : project_state(base, d) = project_state(base, evs)

\* C10: validate_resolution returns Ok exactly for pending -> accepted_base,
\* pending -> accepted_incoming and pending -> manual, and an InvalidInput
\* error for the other 13 pairs.
C10_ResolutionTable ==
    call.fn = "validate_resolution" =>
        call.ret = IF /\ call.current = "pending"
                      /\ call.target \in {"accepted_base", "accepted_incoming", "manual"}
                   THEN Ok("unit")
                   ELSE Err("InvalidInput")

C10_Witness ==
    /\ call.fn = "validate_resolution"
    /\ call.current = "accepted_base"
    /\ call.target = "manual"
    /\ call.ret = Err("InvalidInput")

\* ------------------------------------------------------------------------
\* rt-core block.rs, rt-compare tokenize.rs
\* A text is the sequence of its whitespace-separated words; Rust indices
\* are 0-based, At reads a Vec at such an index.
\* ------------------------------------------------------------------------
None == [some |-> FALSE]
Some(v) == [some |-> TRUE, val |-> v]

At(vec, i) == vec[i + 1]
Min(a, b) == IF a <= b THEN a ELSE b
Max(a, b) == IF a >= b THEN a ELSE b

TitleCase == { "The", "Borrower" }

\* normalize_token: to_lowercase (no word of the model carries a diacritic)
normalize_token(token) ==
    CASE token = "The" -> "the"
      [] token = "Borrower" -> "borrower"
      [] OTHER -> token

\* classify_word: Title Case words are defined terms, the others words
classify_word(word) == IF word \in TitleCase THEN "defined_term" ELSE "word"

\* tokenize: whitespace is skipped, every word becomes one token
tokenize(text) ==
    [i \in 1..Len(text) |-> [text |-> text[i],
                             kind |-> classify_word(text[i]),
                             normalized |-> normalize_token(text[i])]]

\* the String of a text: its words separated by one space
RECURSIVE Chars(_)
Chars(text) ==
    IF text = <<>> THEN ""
    ELSE IF Len(text) = 1 THEN text[1]
    ELSE text[1] \o " " \o Chars(Tail(text))

\* chars().take(n).collect()
Take(s, n) == IF Len(s) <= n THEN s ELSE SubSeq(s, 1, n)

BlockType ==
    { "Section", "Clause", "Subclause", "Paragraph", "Table", "TableRow", "TableCell" }

block_type_str(bt) ==
    CASE bt = "Section" -> "section"
      [] bt = "Clause" -> "clause"
      [] bt = "Subclause" -> "subclause"
      [] bt = "Paragraph" -> "paragraph"
      [] bt = "Table" -> "table"
      [] bt = "TableRow" -> "table_row"
      [] bt = "TableCell" -> "table_cell"

\* sha256_hex is taken as collision free: a digest is identified with its input
sha256_hex(input) == <<"sha256", input>>

compute_clause_hash(canonical_text) == sha256_hex(Chars(canonical_text))

\* format!("{}|{}|{}", type_str, structural_path, prefix)
compute_anchor_signature(block_type, structural_path, canonical_text) ==
    LET type_str == block_type_str(block_type)
        prefix == Take(Chars(canonical_text), 128)
        payload == type_str \o "|" \o structural_path \o "|" \o prefix
    IN sha256_hex(payload)

\* Block::new: anchor_signature and clause_hash computed, tokens left empty
NewBlock(id, block_type, structural_path, canonical_text) ==
    [id |-> id,
     block_type |-> block_type,
     structural_path |-> structural_path,
     anchor_signature |-> compute_anchor_signature(block_type, structural_path,
                                                   canonical_text),
     clause_hash |-> compute_clause_hash(canonical_text),
     canonical_text |-> canonical_text,
     tokens |-> <<>>]

\* ------------------------------------------------------------------------
\* rt-compare align.rs
\* ------------------------------------------------------------------------
\* the f64 thresholds, in hundredths
SIMILARITY_THRESHOLD == 70
MOVE_THRESHOLD == 85

\* an f64 similarity intersection / total is kept as the pair of its terms;
\* sim >= threshold compares the exact quotient
SimGe(sim, hundredths) == sim.num * 100 >= hundredths * sim.den
SimGt(a, b) == a.num * b.den > b.num * a.den

token_set(block) ==
    IF block.tokens # <<>>
    THEN LET kept == SelectSeq(block.tokens, LAMBDA t : t.kind # "whitespace")
         IN [i \in 1..Len(kept) |-> kept[i].normalized]
    ELSE LET toks == tokenize(block.canonical_text)
         IN [i \in 1..Len(toks) |-> toks[i].normalized]

TokenCount(toks, t) == Cardinality({ i \in 1..Len(toks) : toks[i] = t })

RECURSIVE SumMinCounts(_, _, _)
SumMinCounts(keys, left_tokens, right_tokens) ==
    IF keys = {} THEN 0
    ELSE LET tok == CHOOSE k \in keys : TRUE
         IN Min(TokenCount(left_tokens, tok), TokenCount(right_tokens, tok))
            + SumMinCounts(keys \ {tok}, left_tokens, right_tokens)

block_similarity(left, right) ==
    LET left_tokens == token_set(left)
        right_tokens == token_set(right)
        intersection ==
            SumMinCounts({ left_tokens[i] : i \in 1..Len(left_tokens) },
                         left_tokens, right_tokens)
        total == Len(left_tokens) + Len(right_tokens) - intersection
    IN IF left_tokens = <<>> /\ right_tokens = <<>> THEN [num |-> 1, den |-> 1]
       ELSE IF left_tokens = <<>> \/ right_tokens = <<>> THEN [num |-> 0, den |-> 1]
       ELSE IF total = 0 THEN [num |-> 1, den |-> 1]
       ELSE [num |-> intersection, den |-> total]

\* HashMap::collect over enumerate(): of two entries with the same key the
\* later index stays in the map
right_by_path(right) ==
    [path \in { right[i].structural_path : i \in 1..Len(right) } |->
        SetMax({ i - 1 : i \in { j \in 1..Len(right) : right[j].structural_path = path } })]

right_by_anchor(right, right_matched) ==
    LET open == { j \in 1..Len(right) : (j - 1) \notin right_matched }
    IN [anchor \in { right[i].anchor_signature : i \in open } |->
           SetMax({ i - 1 : i \in { j \in open : right[j].anchor_signature = anchor } })]

\* Pass 1: exact structural_path match
RECURSIVE pass1(_, _, _, _, _)
pass1(left, right, by_path, li, acc) ==
    IF li >= Len(left) THEN acc
    ELSE LET lb == At(left, li)
             hit == /\ lb.structural_path \in DOMAIN by_path
                    /\ by_path[lb.structural_path] \notin acc.right_matched
             ri == by_path[lb.structural_path]
         IN IF hit
            THEN pass1(left, right, by_path, li + 1,
                       [pairs |-> Append(acc.pairs,
                                         [l |-> li, r |-> ri,
                                          sim |-> block_similarity(lb, At(right, ri)),
                                          is_move |-> FALSE]),
                        left_matched |-> acc.left_matched \cup {li},
                        right_matched |-> acc.right_matched \cup {ri}])
            ELSE pass1(left, right, by_path, li + 1, acc)

\* Pass 2: anchor_signature match for still-unmatched blocks
RECURSIVE pass2(_, _, _, _, _)
pass2(left, right, by_anchor, li, acc) ==
    IF li >= Len(left) THEN acc
    ELSE LET lb == At(left, li)
             hit == /\ li \notin acc.left_matched
                    /\ lb.anchor_signature \in DOMAIN by_anchor
                    /\ by_anchor[lb.anchor_signature] \notin acc.right_matched
             ri == by_anchor[lb.anchor_signature]
         IN IF hit
            THEN pass2(left, right, by_anchor, li + 1,
                       [pairs |-> Append(acc.pairs,
                                         [l |-> li, r |-> ri,
                                          sim |-> block_similarity(lb, At(right, ri)),
                                          is_move |-> lb.structural_path
                                                        # At(right, ri).structural_path]),
                        left_matched |-> acc.left_matched \cup {li},
                        right_matched |-> acc.right_matched \cup {ri}])
            ELSE pass2(left, right, by_anchor, li + 1, acc)

candidates_move_threshold(left, right, acc) ==
    LET n == Len(left)
        m == Len(right)
        all == [k \in 1..(n * m) |->
                   [l |-> (k - 1) \div m, r |-> (k - 1) % m,
                    sim |-> block_similarity(left[((k - 1) \div m) + 1],
                                             right[((k - 1) % m) + 1])]]
    IN SelectSeq(all, LAMBDA c : /\ c.l \notin acc.left_matched
                                 /\ c.r \notin acc.right_matched
                                 /\ c.sim.num * 100 >= 85 * c.sim.den)

\* Pass 3: every pair of unmatched blocks, left index major, kept when
\* sim >= SIMILARITY_THRESHOLD
candidates(left, right, acc) ==
    LET n == Len(left)
        m == Len(right)
        all == [k \in 1..(n * m) |->
                   [l |-> (k - 1) \div m, r |-> (k - 1) % m,
                    sim |-> block_similarity(At(left, (k - 1) \div m),
                                             At(right, (k - 1) % m))]]
    IN SelectSeq(all, LAMBDA c : /\ c.l \notin acc.left_matched
                                 /\ c.r \notin acc.right_matched
                                 /\ SimGe(c.sim, SIMILARITY_THRESHOLD))

\* sort_by(|a, b| b.2.partial_cmp(&a.2)): stable, descending similarity
RECURSIVE InsertBySim_before_ties(_, _)
InsertBySim_before_ties(sorted, c) ==
    IF sorted = <<>> THEN <<c>>
    ELSE IF c.sim.num * Head(sorted).sim.den >= Head(sorted).sim.num * c.sim.den
    THEN <<c>> \o sorted
    ELSE <<Head(sorted)>> \o InsertBySim_before_ties(Tail(sorted), c)

RECURSIVE InsertBySim(_, _)
InsertBySim(sorted, c) ==
    IF sorted = <<>> THEN <<c>>
    ELSE IF SimGt(c.sim, Head(sorted).sim) THEN <<c>> \o sorted
    ELSE <<Head(sorted)>> \o InsertBySim(Tail(sorted), c)

RECURSIVE sort_by_sim(_, _)
sort_by_sim(cands, sorted) ==
    IF cands = <<>> THEN sorted
    ELSE sort_by_sim(Tail(cands), InsertBySim(sorted, Head(cands)))

\* greedy best-first matching
RECURSIVE pass3_never_moved(_, _, _, _, _, _)
pass3_never_moved(left, right, cands, sim_left_used, sim_right_used, acc) ==
    IF cands = <<>> THEN acc
    ELSE LET c == Head(cands)
         IN IF c.l \in sim_left_used \/ c.r \in sim_right_used
            THEN pass3_never_moved(left, right, Tail(cands), sim_left_used, sim_right_used, acc)
            ELSE pass3_never_moved(left, right, Tail(cands),
                       sim_left_used \cup {c.l}, sim_right_used \cup {c.r},
                       [pairs |-> Append(acc.pairs,
                                         [l |-> c.l, r |-> c.r, sim |-> c.sim,
                                          is_move |-> FALSE]),
                        left_matched |-> acc.left_matched \cup {c.l},
                        right_matched |-> acc.right_matched \cup {c.r}])

RECURSIVE pass3(_, _, _, _, _, _)
pass3(left, right, cands, sim_left_used, sim_right_used, acc) ==
    IF cands = <<>> THEN acc
    ELSE LET c == Head(cands)
         IN IF c.l \in sim_left_used \/ c.r \in sim_right_used
            THEN pass3(left, right, Tail(cands), sim_left_used, sim_right_used, acc)
            ELSE pass3(left, right, Tail(cands),
                       sim_left_used \cup {c.l}, sim_right_used \cup {c.r},
                       [pairs |-> Append(acc.pairs,
                                         [l |-> c.l, r |-> c.r, sim |-> c.sim,
                                          is_move |->
                                              /\ At(left, c.l).structural_path
                                                   # At(right, c.r).structural_path
                                              /\ SimGe(c.sim, MOVE_THRESHOLD)]),
                        left_matched |-> acc.left_matched \cup {c.l},
                        right_matched |-> acc.right_matched \cup {c.r}])

\* the indices 0..len-1 outside `matched`, ascending
Unmatched(len, matched) ==
    SelectSeq([k \in 1..len |-> k - 1], LAMBDA i : i \notin matched)

\* lcs_align: dp[i][j] is the LCS length of the first i left and first j
\* right indices, canonical_text equality being the match predicate
RECURSIVE lcs_dp(_, _, _, _, _, _)
lcs_dp(left_indices, right_indices, left, right, i, j) ==
    IF i = 0 \/ j = 0 THEN 0
    ELSE IF At(left, left_indices[i]).canonical_text
              = At(right, right_indices[j]).canonical_text
    THEN lcs_dp(left_indices, right_indices, left, right, i - 1, j - 1) + 1
    ELSE Max(lcs_dp(left_indices, right_indices, left, right, i - 1, j),
             lcs_dp(left_indices, right_indices, left, right, i, j - 1))

\* the backtracking loop, collecting pairs from the end; the result is reversed
RECURSIVE lcs_backtrack(_, _, _, _, _, _)
lcs_backtrack(left_indices, right_indices, left, right, i, j) ==
    IF i = 0 \/ j = 0 THEN <<>>
    ELSE IF At(left, left_indices[i]).canonical_text
              = At(right, right_indices[j]).canonical_text
    THEN Append(lcs_backtrack(left_indices, right_indices, left, right, i - 1, j - 1),
                [l |-> left_indices[i], r |-> right_indices[j]])
    ELSE IF lcs_dp(left_indices, right_indices, left, right, i - 1, j)
              >= lcs_dp(left_indices, right_indices, left, right, i, j - 1)
    THEN lcs_backtrack(left_indices, right_indices, left, right, i - 1, j)
    ELSE lcs_backtrack(left_indices, right_indices, left, right, i, j - 1)

lcs_align(left_indices, right_indices, left, right) ==
    IF Len(left_indices) = 0 \/ Len(right_indices) = 0 THEN <<>>
    ELSE lcs_backtrack(left_indices, right_indices, left, right,
                       Len(left_indices), Len(right_indices))

\* Pass 4: an LCS pair is admitted when sim >= SIMILARITY_THRESHOLD
RECURSIVE pass4(_, _, _, _)
pass4(left, right, lcs_pairs, acc) ==
    IF lcs_pairs = <<>> THEN acc
    ELSE LET p == Head(lcs_pairs)
             sim == block_similarity(At(left, p.l), At(right, p.r))
         IN IF SimGe(sim, SIMILARITY_THRESHOLD)
            THEN pass4(left, right, Tail(lcs_pairs),
                       [pairs |-> Append(acc.pairs,
                                         [l |-> p.l, r |-> p.r, sim |-> sim,
                                          is_move |->
                                              /\ At(left, p.l).structural_path
                                                   # At(right, p.r).structural_path
                                              /\ SimGe(sim, MOVE_THRESHOLD)]),
                        left_matched |-> acc.left_matched \cup {p.l},
                        right_matched |-> acc.right_matched \cup {p.r}])
            ELSE pass4(left, right, Tail(lcs_pairs), acc)

\* emit_insertions_before: InsertedRight for every right index below
\* before_ri that is neither emitted nor matched
RECURSIVE emit_insertions_before(_, _, _, _)
emit_insertions_before(before_ri, ri, matched, out) ==
    IF ri >= before_ri THEN out
    ELSE IF ri \notin out.emitted /\ ri \notin matched
    THEN emit_insertions_before(before_ri, ri + 1, matched,
             [emitted |-> out.emitted \cup {ri},
              result |-> Append(out.result, [kind |-> "inserted_right", right |-> ri])])
    ELSE emit_insertions_before(before_ri, ri + 1, matched, out)

\* the last pair pushed for a left index is the one pair_map keeps
PairOf(pairs, li) ==
    pairs[SetMax({ k \in 1..Len(pairs) : pairs[k].l = li })]

\* emit in left-document traversal order
RECURSIVE emit_left_drop_deleted(_, _, _, _, _)
emit_left_drop_deleted(left_len, pairs, right_matched, li, out) ==
    IF li >= left_len THEN out
    ELSE IF \E k \in 1..Len(pairs) : pairs[k].l = li
    THEN LET p == PairOf(pairs, li)
             before == emit_insertions_before(p.r, 0, right_matched, out)
         IN emit_left_drop_deleted(left_len, pairs, right_matched, li + 1,
                [emitted |-> before.emitted \cup {p.r},
                 result |-> Append(before.result,
                                   [kind |-> IF p.is_move THEN "moved" ELSE "matched",
                                    left |-> li, right |-> p.r, similarity |-> p.sim])])
    ELSE emit_left_drop_deleted(left_len, pairs, right_matched, li + 1, out)

RECURSIVE emit_left_insertions_last(_, _, _, _, _)
emit_left_insertions_last(left_len, pairs, right_matched, li, out) ==
    IF li >= left_len THEN out
    ELSE IF \E k \in 1..Len(pairs) : pairs[k].l = li
    THEN LET p == pairs[CHOOSE k \in 1..Len(pairs) : pairs[k].l = li]
         IN emit_left_insertions_last(left_len, pairs, right_matched, li + 1,
                [emitted |-> out.emitted \cup {p.r},
                 result |-> Append(out.result,
                                   [kind |-> IF p.is_move THEN "moved" ELSE "matched",
                                    left |-> li, right |-> p.r, similarity |-> p.sim])])
    ELSE emit_left_insertions_last(left_len, pairs, right_matched, li + 1,
                [emitted |-> out.emitted,
                 result |-> Append(out.result, [kind |-> "deleted_left", left |-> li])])

RECURSIVE emit_left(_, _, _, _, _)
emit_left(left_len, pairs, right_matched, li, out) ==
    IF li >= left_len THEN out
    ELSE IF \E k \in 1..Len(pairs) : pairs[k].l = li
    THEN LET p == PairOf(pairs, li)
             before == emit_insertions_before(p.r, 0, right_matched, out)
         IN emit_left(left_len, pairs, right_matched, li + 1,
                [emitted |-> before.emitted \cup {p.r},
                 result |-> Append(before.result,
                                   [kind |-> IF p.is_move THEN "moved" ELSE "matched",
                                    left |-> li, right |-> p.r, similarity |-> p.sim])])
    ELSE emit_left(left_len, pairs, right_matched, li + 1,
                [emitted |-> out.emitted,
                 result |-> Append(out.result, [kind |-> "deleted_left", left |-> li])])

align_blocks(left, right) ==
    LET none == [pairs |-> <<>>, left_matched |-> {}, right_matched |-> {}]
        p1 == pass1(left, right, right_by_path(right), 0, none)
        p2 == pass2(left, right, right_by_anchor(right, p1.right_matched), 0, p1)
        p3 == pass3(left, right, sort_by_sim(candidates(left, right, p2), <<>>), {}, {}, p2)
        p4 == pass4(left, right,
                    lcs_align(Unmatched(Len(left), p3.left_matched),
                              Unmatched(Len(right), p3.right_matched), left, right),
                    p3)
        emitted == emit_left(Len(left), p4.pairs, p4.right_matched, 0,
                             [emitted |-> {}, result |-> <<>>])
    IN emit_insertions_before(Len(right), 0, p4.right_matched, emitted).result

\* the pairs and matched sets of align_blocks after pass 2 and after pass 3
after_pass2(left, right) ==
    LET p1 == pass1(left, right, right_by_path(right), 0,
                    [pairs |-> <<>>, left_matched |-> {}, right_matched |-> {}])
    IN pass2(left, right, right_by_anchor(right, p1.right_matched), 0, p1)

after_pass3(left, right) ==
    LET p2 == after_pass2(left, right)
    IN pass3(left, right, sort_by_sim(candidates(left, right, p2), <<>>), {}, {}, p2)

\* the loop of block_similarity over left_counts, its keys visited in the
\* order `keys` (a HashMap iterates in an arbitrary order)
RECURSIVE intersection_in_order(_, _, _)
intersection_in_order(keys, left_tokens, right_tokens) ==
    IF keys = <<>> THEN 0
    ELSE (IF TokenCount(right_tokens, Head(keys)) > 0
          THEN Min(TokenCount(left_tokens, Head(keys)), TokenCount(right_tokens, Head(keys)))
          ELSE 0)
         + intersection_in_order(Tail(keys), left_tokens, right_tokens)

\* ------------------------------------------------------------------------
\* align_blocks applied to every pair of block lists of at most
\* MaxAlignBlocks blocks in all.  The blocks are deserialized ones: path,
\* anchor and text are independent of each other, so paths, anchors and
\* texts repeat within a list.
\* ------------------------------------------------------------------------
MaxAlignBlocks == 3

AlignPaths == { "1.1", "2.1" }
AlignAnchors == { "anchor-a", "anchor-b" }
\* similarities between the texts: 1 (same text), 3/4 and 0
AlignTexts == { <<"a", "b", "c">>, <<"a", "b", "c", "d">>, <<"e">> }

AlignBlocks ==
    { [id |-> "block", structural_path |-> path, anchor_signature |-> anchor,
       clause_hash |-> compute_clause_hash(text), canonical_text |-> text,
       tokens |-> <<>>] :
        path \in AlignPaths, anchor \in AlignAnchors, text \in AlignTexts }

AlignSizes ==
    { nm \in (0..MaxAlignBlocks) \X (0..MaxAlignBlocks) : nm[1] + nm[2] <= MaxAlignBlocks }

InitAlign ==
    /\ workflows = <<>>
    /\ workflow_events = <<>>
    /\ documents = {}
    /\ blocks = <<>>
    /\ tokens = <<>>
    /\ clock = 0
    /\ result = NoResult
    /\ conn = [c \in Conns |-> NoConn]
    /\ \E nm \in AlignSizes :
          \E l \in [1..nm[1] -> AlignBlocks], r \in [1..nm[2] -> AlignBlocks] :
              call = [fn |-> "align_blocks_input", left |-> l, right |-> r]

call_align_blocks ==
    /\ call.fn = "align_blocks_input"
    /\ call' = [fn |-> "align_blocks", left |-> call.left, right |-> call.right,
                ret |-> align_blocks(call.left, call.right)]
    /\ UNCHANGED <<documents, blocks, tokens, workflows, workflow_events, clock, result, conn>>

NextAlign == call_align_blocks

SpecAlign == InitAlign /\ [][NextAlign]_vars

\* ------------------------------------------------------------------------
\* rt-compare diff.rs
\* similar::capture_diff_slices(Algorithm::Myers, ..) is an external crate.
\* It returns a shortest edit script whose deletions come before the
\* insertions inside every run of changes (its Replace hook joins them);
\* which shortest script it returns is left open here, so the call is the
\* set of all of them, each already expanded to one op per token.
\* ------------------------------------------------------------------------
\* LcsSuffixRow: entries j..Len(new)+1 of the row of old token x, given the
\* row below; entry j is the LCS length of the suffixes starting there
RECURSIVE LcsSuffixRow(_, _, _, _)
LcsSuffixRow(x, new, below, j) ==
    IF j > Len(new) THEN <<0>>
    ELSE LET rest == LcsSuffixRow(x, new, below, j + 1)
         IN <<IF x = new[j] THEN 1 + below[j + 1] ELSE Max(below[j], Head(rest))>> \o rest

RECURSIVE LcsSuffixRows(_, _, _)
LcsSuffixRows(old, new, i) ==
    IF i > Len(old) THEN << [j \in 1..(Len(new) + 1) |-> 0] >>
    ELSE LET rest == LcsSuffixRows(old, new, i + 1)
         IN << LcsSuffixRow(old[i], new, Head(rest), 1) >> \o rest

RECURSIVE ShortestScripts(_, _, _, _, _, _)
ShortestScripts(old, new, lcs, i, j, after_insert) ==
    IF i > Len(old) /\ j > Len(new) THEN { <<>> }
    ELSE LET equal ==
                 IF i <= Len(old) /\ j <= Len(new) /\ old[i] = new[j]
                 THEN { <<[tag |-> "equal", old_index |-> i - 1, new_index |-> j - 1]>> \o t :
                          t \in ShortestScripts(old, new, lcs, i + 1, j + 1, FALSE) }
                 ELSE {}
             delete ==
                 IF i <= Len(old) /\ ~after_insert /\ lcs[i + 1][j] = lcs[i][j]
                 THEN { <<[tag |-> "delete", old_index |-> i - 1, new_index |-> j - 1]>> \o t :
                          t \in ShortestScripts(old, new, lcs, i + 1, j, FALSE) }
                 ELSE {}
             insert ==
                 IF j <= Len(new) /\ lcs[i][j + 1] = lcs[i][j]
                 THEN { <<[tag |-> "insert", old_index |-> i - 1, new_index |-> j - 1]>> \o t :
                          t \in ShortestScripts(old, new, lcs, i, j + 1, TRUE) }
                 ELSE {}
         IN equal \cup delete \cup insert

capture_diff_slices(old, new) ==
    ShortestScripts(old, new, LcsSuffixRows(old, new, 1), 1, 1, FALSE)

\* the flat change stream: one RawChange per op
RawChanges(ops, left, right) ==
    [k \in 1..Len(ops) |->
        CASE ops[k].tag = "equal" ->
                 [tag |-> "equal", left_token |-> Some(At(left, ops[k].old_index)),
                  right_token |-> Some(At(right, ops[k].new_index))]
          [] ops[k].tag = "delete" ->
                 [tag |-> "delete", left_token |-> Some(At(left, ops[k].old_index)),
                  right_token |-> None]
          [] ops[k].tag = "insert" ->
                 [tag |-> "insert", left_token |-> None,
                  right_token |-> Some(At(right, ops[k].new_index))]]

\* the text of an optional token; unwrap_or_default gives "" for None, and
\* an empty text is not pushed
Texts(token) == IF token.some /\ token.val.text # "" THEN <<token.val.text>> ELSE <<>>

\* group_and_merge, step 1: group consecutive same-tag runs as
\* (tag, left_texts, right_texts)
RECURSIVE group_runs(_, _)
group_runs(changes, groups) ==
    IF changes = <<>> THEN groups
    ELSE LET ch == Head(changes)
             n == Len(groups)
         IN IF n > 0 /\ groups[n].tag = ch.tag
            THEN group_runs(Tail(changes),
                     [groups EXCEPT ![n] =
                         [tag |-> ch.tag,
                          left_texts |-> groups[n].left_texts \o Texts(ch.left_token),
                          right_texts |-> groups[n].right_texts \o Texts(ch.right_token)]])
            ELSE group_runs(Tail(changes),
                     Append(groups, [tag |-> ch.tag,
                                     left_texts |-> Texts(ch.left_token),
                                     right_texts |-> Texts(ch.right_token)]))

\* group_and_merge, step 2: a Delete group followed by an Insert group
\* becomes one Substituted entry.  `let (_, ref rt2, _, _, ro2) = groups[i + 1]`
\* binds rt2 to the second field of the Insert group, its left_texts.
RECURSIVE merge_groups(_, _)
merge_groups(groups, i) ==
    IF i > Len(groups) THEN <<>>
    ELSE IF groups[i].tag = "delete" /\ i + 1 <= Len(groups) /\ groups[i + 1].tag = "insert"
    THEN <<[kind |-> "substituted",
            left_tokens |-> groups[i].left_texts,
            right_tokens |-> groups[i + 1].left_texts]>> \o merge_groups(groups, i + 2)
    ELSE <<[kind |-> CASE groups[i].tag = "equal" -> "equal"
                       [] groups[i].tag = "delete" -> "deleted"
                       [] groups[i].tag = "insert" -> "inserted",
            left_tokens |-> groups[i].left_texts,
            right_tokens |-> groups[i].right_texts]>> \o merge_groups(groups, i + 1)

group_and_merge(changes) == merge_groups(group_runs(changes, <<>>), 1)

Normalized(toks) == [k \in 1..Len(toks) |-> toks[k].normalized]

\* token_diff: every list of TokenDiff entries the call can return
token_diff(left, right) ==
    { group_and_merge(RawChanges(ops, left, right)) :
        ops \in capture_diff_slices(Normalized(left), Normalized(right)) }

\* ------------------------------------------------------------------------
\* rt-merge: layer.rs, conflict.rs, resolution.rs, merge.rs
\* A delta payload is the JSON object {"text": ..}; it is kept as the
\* optional text, a sequence of words (None: a payload without "text").
\* Generated ids, reviewer ids and timestamps play no part and are left out.
\* ------------------------------------------------------------------------
BlockDelta(block_id, delta_type, token_start, token_end, delta_payload) ==
    [block_id |-> block_id, delta_type |-> delta_type,
     token_start |-> token_start, token_end |-> token_end,
     delta_payload |-> delta_payload]

RECURSIVE diffs_to_base_deltas(_, _, _, _)
diffs_to_base_deltas(diffs, block_id, k, base_token_idx) ==
    IF k > Len(diffs) THEN <<>>
    ELSE LET diff == diffs[k]
             left_len == Len(diff.left_tokens)
         IN CASE diff.kind = "equal" ->
                     diffs_to_base_deltas(diffs, block_id, k + 1, base_token_idx + left_len)
              [] diff.kind \in { "deleted", "substituted" } ->
                     IF left_len > 0
                     THEN <<BlockDelta(block_id,
                                IF diff.kind = "deleted" THEN "delete" ELSE "modify",
                                base_token_idx, base_token_idx + left_len - 1,
                                Some(diff.left_tokens))>>
                          \o diffs_to_base_deltas(diffs, block_id, k + 1, base_token_idx + left_len)
                     ELSE diffs_to_base_deltas(diffs, block_id, k + 1, base_token_idx)
              [] diff.kind = "inserted" ->
                     diffs_to_base_deltas(diffs, block_id, k + 1, base_token_idx)

RECURSIVE diffs_to_incoming_deltas(_, _, _, _)
diffs_to_incoming_deltas(diffs, block_id, k, base_token_idx) ==
    IF k > Len(diffs) THEN <<>>
    ELSE LET diff == diffs[k]
             left_len == Len(diff.left_tokens)
             right_len == Len(diff.right_tokens)
         IN CASE diff.kind \in { "equal", "deleted" } ->
                     diffs_to_incoming_deltas(diffs, block_id, k + 1, base_token_idx + left_len)
              [] diff.kind = "inserted" ->
                     IF right_len > 0
                     THEN <<BlockDelta(block_id, "insert", base_token_idx,
                                IF base_token_idx > 0 THEN base_token_idx ELSE 0,
                                Some(diff.right_tokens))>>
                          \o diffs_to_incoming_deltas(diffs, block_id, k + 1, base_token_idx)
                     ELSE diffs_to_incoming_deltas(diffs, block_id, k + 1, base_token_idx)
              [] diff.kind = "substituted" ->
                     IF right_len > 0 /\ left_len > 0
                     THEN <<BlockDelta(block_id, "modify", base_token_idx,
                                base_token_idx + left_len - 1, Some(diff.right_tokens))>>
                          \o diffs_to_incoming_deltas(diffs, block_id, k + 1, base_token_idx + left_len)
                     ELSE IF left_len = 0 /\ right_len > 0
                     THEN <<BlockDelta(block_id, "insert", base_token_idx, base_token_idx,
                                Some(diff.right_tokens))>>
                          \o diffs_to_incoming_deltas(diffs, block_id, k + 1, base_token_idx)
                     ELSE diffs_to_incoming_deltas(diffs, block_id, k + 1, base_token_idx + left_len)

\* MergeConflict::new: every new conflict starts pending
MergeConflict(block_id, conflict_type, base_content, incoming_content) ==
    [block_id |-> block_id, conflict_type |-> conflict_type,
     base_content |-> base_content, incoming_content |-> incoming_content,
     resolution |-> "pending"]

ranges_overlap(a_start, a_end, b_start, b_end) == a_start <= b_end /\ b_start <= a_end

payload_text(payload) == payload

\* the body of the two loops of detect_conflicts for one pair
detect_pair_overlap_only(base_delta, inc_delta) ==
    LET base_is_delete == base_delta.delta_type = "delete"
        inc_is_delete == inc_delta.delta_type = "delete"
        overlap == base_delta.token_start <= inc_delta.token_end
                   /\ inc_delta.token_start <= base_delta.token_end
    IN IF base_delta.block_id # inc_delta.block_id \/ ~overlap THEN <<>>
       ELSE IF base_is_delete /\ ~inc_is_delete
       THEN <<[block_id |-> base_delta.block_id, conflict_type |-> "delete_modify",
               base_content |-> [some |-> FALSE], incoming_content |-> inc_delta.delta_payload,
               resolution |-> "pending"]>>
       ELSE IF inc_is_delete /\ ~base_is_delete
       THEN <<[block_id |-> base_delta.block_id, conflict_type |-> "delete_modify",
               base_content |-> base_delta.delta_payload, incoming_content |-> [some |-> FALSE],
               resolution |-> "pending"]>>
       ELSE IF ~base_is_delete /\ ~inc_is_delete
       THEN <<[block_id |-> base_delta.block_id, conflict_type |-> "content_overlap",
               base_content |-> base_delta.delta_payload,
               incoming_content |-> inc_delta.delta_payload,
               resolution |-> "pending"]>>
       ELSE <<>>

detect_pair(base_delta, inc_delta) ==
    LET base_is_delete == base_delta.delta_type = "delete"
        inc_is_delete == inc_delta.delta_type = "delete"
    IN IF base_delta.block_id # inc_delta.block_id THEN <<>>
       ELSE IF base_is_delete /\ inc_delta.delta_type # "delete"
       THEN <<MergeConflict(base_delta.block_id, "delete_modify",
                  None, payload_text(inc_delta.delta_payload))>>
       ELSE IF inc_is_delete /\ base_delta.delta_type # "delete"
       THEN <<MergeConflict(base_delta.block_id, "delete_modify",
                  payload_text(base_delta.delta_payload), None)>>
       ELSE IF ~base_is_delete /\ ~inc_is_delete
               /\ ranges_overlap(base_delta.token_start, base_delta.token_end,
                                 inc_delta.token_start, inc_delta.token_end)
       THEN <<MergeConflict(base_delta.block_id, "content_overlap",
                  payload_text(base_delta.delta_payload),
                  payload_text(inc_delta.delta_payload))>>
       ELSE <<>>

RECURSIVE detect_conflicts_from(_, _, _, _)
detect_conflicts_from(base_deltas, incoming_deltas, b, i) ==
    IF b > Len(base_deltas) THEN <<>>
    ELSE IF i > Len(incoming_deltas)
    THEN detect_conflicts_from(base_deltas, incoming_deltas, b + 1, 1)
    ELSE detect_pair(base_deltas[b], incoming_deltas[i])
         \o detect_conflicts_from(base_deltas, incoming_deltas, b, i + 1)

detect_conflicts(base_deltas, incoming_deltas) ==
    detect_conflicts_from(base_deltas, incoming_deltas, 1, 1)

\* MergeEngine::resolve_conflict: the conflict after the call and the
\* value returned
resolve_conflict_unchecked(conflict, resolution) ==
    [ret |-> Ok("unit"), conflict |-> [conflict EXCEPT !.resolution = resolution]]

resolve_conflict(conflict, resolution) ==
    LET v == validate_resolution(conflict.resolution, resolution)
    IN IF ~v.ok THEN [ret |-> v, conflict |-> conflict]
       ELSE [ret |-> Ok("unit"), conflict |-> [conflict EXCEPT !.resolution = resolution]]

\* the conflicts one paired alignment can produce: one list per diff the
\* diff engine can return
block_conflicts(base_block, inc_block) ==
    { detect_conflicts(diffs_to_base_deltas(diffs, base_block.id, 1, 0),
                       diffs_to_incoming_deltas(diffs, base_block.id, 1, 0)) :
        diffs \in token_diff(base_block.tokens, inc_block.tokens) }

\* the loop of merge over the alignments from index k on: the set of
\* (all_conflicts, auto_resolved) it can end with
RECURSIVE merge_loop_skip_unpaired(_, _, _, _, _)
merge_loop_skip_unpaired(alignments, base_blocks, incoming_blocks, k, acc) ==
    IF k > Len(alignments) THEN { acc }
    ELSE LET alignment == alignments[k]
             counted == [acc EXCEPT !.auto_resolved = @ + 1]
         IN IF alignment.kind \in { "matched", "moved" }
            THEN LET base_block == base_blocks[alignment.left + 1]
                     inc_block == incoming_blocks[alignment.right + 1]
                 IN IF base_block.clause_hash = inc_block.clause_hash
                    THEN merge_loop_skip_unpaired(alignments, base_blocks, incoming_blocks, k + 1, counted)
                    ELSE UNION { merge_loop_skip_unpaired(alignments, base_blocks, incoming_blocks, k + 1,
                                     IF cs = <<>> THEN counted
                                     ELSE [acc EXCEPT !.all_conflicts = @ \o cs]) :
                                 cs \in block_conflicts(base_block, inc_block) }
            ELSE merge_loop_skip_unpaired(alignments, base_blocks, incoming_blocks, k + 1, acc)

RECURSIVE merge_loop(_, _, _, _, _)
merge_loop(alignments, base_blocks, incoming_blocks, k, acc) ==
    IF k > Len(alignments) THEN { acc }
    ELSE LET alignment == alignments[k]
             counted == [acc EXCEPT !.auto_resolved = @ + 1]
         IN IF alignment.kind \in { "matched", "moved" }
            THEN LET base_block == At(base_blocks, alignment.left)
                     inc_block == At(incoming_blocks, alignment.right)
                 IN IF base_block.clause_hash = inc_block.clause_hash
                    THEN merge_loop(alignments, base_blocks, incoming_blocks, k + 1, counted)
                    ELSE UNION { merge_loop(alignments, base_blocks, incoming_blocks, k + 1,
                                     IF cs = <<>> THEN counted
                                     ELSE [acc EXCEPT !.all_conflicts = @ \o cs]) :
                                 cs \in block_conflicts(base_block, inc_block) }
            ELSE merge_loop(alignments, base_blocks, incoming_blocks, k + 1, counted)

PendingCount_resolved(conflicts) ==
    Cardinality({ k \in 1..Len(conflicts) : conflicts[k].resolution # "pending" })

PendingCount(conflicts) ==
    Cardinality({ k \in 1..Len(conflicts) : conflicts[k].resolution = "pending" })

\* MergeEngine::merge: every MergeResult the call can return
merge(base_blocks, incoming_blocks) ==
    { [conflicts |-> r.all_conflicts,
       auto_resolved |-> r.auto_resolved,
       pending_review |-> PendingCount(r.all_conflicts)] :
        r \in merge_loop(align_blocks(base_blocks, incoming_blocks),
                         base_blocks, incoming_blocks, 1,
                         [all_conflicts |-> <<>>, auto_resolved |-> 0]) }

Paired == { "matched", "moved" }

LeftRecords(ret, li) ==
    { k \in 1..Len(ret) : ret[k].kind \in Paired \cup {"deleted_left"} /\ ret[k].left = li }

RightRecords(ret, ri) ==
    { k \in 1..Len(ret) : ret[k].kind \in Paired \cup {"inserted_right"} /\ ret[k].right = ri }

\* C18: the alignment is exhaustive: every left index is in exactly one
\* Matched, Moved or Deleted record and every right index in exactly one
\* Matched, Moved or Inserted record, whatever paths, anchors and texts repeat.
C18_AlignmentExhaustive ==
    call.fn = "align_blocks" =>
        /\ \A li \in 0..(Len(call.left) - 1) : Cardinality(LeftRecords(call.ret, li)) = 1
        /\ \A ri \in 0..(Len(call.right) - 1) : Cardinality(RightRecords(call.ret, ri)) = 1
        /\ \A k \in 1..Len(call.ret) :
              /\ call.ret[k].kind \in Paired \cup {"deleted_left"}
                    => call.ret[k].left \in 0..(Len(call.left) - 1)
              /\ call.ret[k].kind \in Paired \cup {"inserted_right"}
                    => call.ret[k].right \in 0..(Len(call.right) - 1)

\* two left blocks equal in path, anchor and text against one right block
C18_Witness ==
    /\ call.fn = "align_blocks"
    /\ Len(call.left) = 2
    /\ Len(call.right) = 1
    /\ call.left[1] = call.left[2]
    /\ call.left[1] = call.right[1]
    /\ Len(call.ret) = 2
    /\ call.ret[2].kind = "deleted_left"

PathsDiffer(rec) ==
    At(call.left, rec.left).structural_path # At(call.right, rec.right).structural_path

\* C19: a pair is emitted as Moved exactly when its structural paths differ
\* (so that it comes from pass 2, 3 or 4: pass 1 pairs equal paths only) and
\* its similarity is at least 0.85; every other pair is emitted as Matched.
C19_MovedIffPathDiffersAndSimilar ==
    call.fn = "align_blocks" =>
        \A k \in 1..Len(call.ret) :
            call.ret[k].kind \in Paired =>
                (call.ret[k].kind = "moved"
                    <=> /\ PathsDiffer(call.ret[k])
                        /\ SimGe(call.ret[k].similarity, MOVE_THRESHOLD))

\* C20: a Matched record has equal structural paths or similarity below 0.85.
C20_MatchedSamePathOrDissimilar ==
    call.fn = "align_blocks" =>
        \A k \in 1..Len(call.ret) :
            call.ret[k].kind = "matched" =>
                \/ ~PathsDiffer(call.ret[k])
                \/ ~SimGe(call.ret[k].similarity, MOVE_THRESHOLD)

\* a pass 3 pair with differing paths and similarity 3/4 stays Matched
C20_Witness ==
    /\ call.fn = "align_blocks"
    /\ \E k \in 1..Len(call.ret) :
          /\ call.ret[k].kind = "matched"
          /\ PathsDiffer(call.ret[k])
          /\ call.ret[k].similarity = [num |-> 3, den |-> 4]

\* ------------------------------------------------------------------------
\* SpecDiff: token_diff and the diff-to-delta conversion of merge applied to
\* every pair of token sequences of up to MaxDiffTokens tokens
\* ------------------------------------------------------------------------
MaxDiffTokens == 3
DiffWords == { "The", "the", "day" }
DiffTexts == UNION { [1..n -> DiffWords] : n \in 0..MaxDiffTokens }

InitDiff ==
    /\ workflows = <<>>
    /\ workflow_events = <<>>
    /\ documents = {}
    /\ blocks = <<>>
    /\ tokens = <<>>
    /\ clock = 0
    /\ result = NoResult
    /\ conn = [c \in Conns |-> NoConn]
    /\ \E l \in DiffTexts, r \in DiffTexts :
          call = [fn |-> "token_diff_input", left |-> tokenize(l), right |-> tokenize(r)]

call_token_diff ==
    /\ call.fn = "token_diff_input"
    /\ \E diffs \in token_diff(call.left, call.right) :
          call' = [fn |-> "token_diff", left |-> call.left, right |-> call.right,
                   diffs |-> diffs,
                   base_deltas |-> diffs_to_base_deltas(diffs, "block", 1, 0),
                   incoming_deltas |-> diffs_to_incoming_deltas(diffs, "block", 1, 0)]
    /\ UNCHANGED <<documents, blocks, tokens, workflows, workflow_events, clock, result, conn>>

NextDiff == call_token_diff

SpecDiff == InitDiff /\ [][NextDiff]_vars

DeltasOf(c) ==
    { c.base_deltas[k] : k \in 1..Len(c.base_deltas) }
        \cup { c.incoming_deltas[k] : k \in 1..Len(c.incoming_deltas) }

\* C17: every delta of the diff-to-delta conversion has token_start <=
\* token_end and its inclusive range [token_start, token_end] lies within
\* the token indices 0 .. count-1 of the base block, an insertion after the
\* last base token included.
C17_DeltaRangeWithinBase ==
    call.fn = "token_diff" =>
        \A d \in DeltasOf(call) :
            /\ d.token_start <= d.token_end
            /\ d.token_end < Len(call.left)

\* ------------------------------------------------------------------------
\* SpecDetect: detect_conflicts applied to every pair of delta lists of the
\* sizes DeltaSizes over two block ids; a base delta carries the text
\* "base", an incoming delta the text "incoming"
\* ------------------------------------------------------------------------
MaxDeltaIndex == 1
DeltaBlockIds == { "block-1", "block-2" }
DeltaType == { "insert", "delete", "modify" }
DeltaSizes == { <<0, 1>>, <<1, 0>>, <<1, 1>>, <<1, 2>>, <<2, 1>> }
Deltas(text) ==
    { d \in [block_id : DeltaBlockIds, delta_type : DeltaType,
             token_start : 0..MaxDeltaIndex, token_end : 0..MaxDeltaIndex,
             delta_payload : { Some(<<text>>) }] : d.token_start <= d.token_end }

InitDetect ==
    /\ workflows = <<>>
    /\ workflow_events = <<>>
    /\ documents = {}
    /\ blocks = <<>>
    /\ tokens = <<>>
    /\ clock = 0
    /\ result = NoResult
    /\ conn = [c \in Conns |-> NoConn]
    /\ \E nm \in DeltaSizes :
          \E b \in [1..nm[1] -> Deltas("base")], i \in [1..nm[2] -> Deltas("incoming")] :
              call = [fn |-> "detect_conflicts_input", base_deltas |-> b, incoming_deltas |-> i]

call_detect_conflicts ==
    /\ call.fn = "detect_conflicts_input"
    /\ call' = [fn |-> "detect_conflicts", base_deltas |-> call.base_deltas,
                incoming_deltas |-> call.incoming_deltas,
                ret |-> detect_conflicts(call.base_deltas, call.incoming_deltas)]
    /\ UNCHANGED <<documents, blocks, tokens, workflows, workflow_events, clock, result, conn>>

NextDetect == call_detect_conflicts

SpecDetect == InitDetect /\ [][NextDetect]_vars

\* the conflict type the pair (b, i) calls for, "none" when it calls for none
ExpectedConflict(b, i) ==
    IF b.block_id # i.block_id THEN "none"
    ELSE IF (b.delta_type = "delete") # (i.delta_type = "delete") THEN "delete_modify"
    ELSE IF b.delta_type # "delete" /\ i.delta_type # "delete"
            /\ b.token_start <= i.token_end /\ i.token_start <= b.token_end
    THEN "content_overlap"
    ELSE "none"

\* the pairs (b, i) that call for a conflict, base delta by base delta
RECURSIVE ConflictingPairs(_, _, _, _)
ConflictingPairs(base, inc, b, i) ==
    IF b > Len(base) THEN <<>>
    ELSE IF i > Len(inc) THEN ConflictingPairs(base, inc, b + 1, 1)
    ELSE (IF ExpectedConflict(base[b], inc[i]) = "none" THEN <<>> ELSE << <<b, i>> >>)
         \o ConflictingPairs(base, inc, b, i + 1)

\* C12: detect_conflicts returns one conflict per pair (b, i) on the same
\* block that has exactly one delete (delete_modify, whatever the ranges,
\* with no content on the deleting side) or has no delete and overlapping
\* inclusive ranges (content_overlap), and nothing for any other pair: not
\* for two deletes, not for disjoint non-delete deltas.
C12_DetectConflictsPerPair ==
    call.fn = "detect_conflicts" =>
        LET pairs == ConflictingPairs(call.base_deltas, call.incoming_deltas, 1, 1)
        IN /\ Len(call.ret) = Len(pairs)
           /\ \A k \in 1..Len(pairs) :
                LET b == call.base_deltas[pairs[k][1]]
                    i == call.incoming_deltas[pairs[k][2]]
                    c == call.ret[k]
                IN /\ c.block_id = b.block_id
                   /\ c.conflict_type = ExpectedConflict(b, i)
                   /\ c.resolution = "pending"
                   /\ (b.delta_type = "delete" => ~c.base_content.some)
                   /\ (i.delta_type = "delete" => ~c.incoming_content.some)
                   /\ (b.delta_type # "delete" => c.base_content = Some(<<"base">>))
                   /\ (i.delta_type # "delete" => c.incoming_content = Some(<<"incoming">>))

\* a delete against a modify with a disjoint range, on the same block: one
\* delete_modify conflict; the second incoming delta is a delete too and
\* adds nothing
C12_Witness ==
    /\ call.fn = "detect_conflicts"
    /\ Len(call.base_deltas) = 1 /\ Len(call.incoming_deltas) = 2
    /\ call.base_deltas[1].delta_type = "delete"
    /\ call.incoming_deltas[1].delta_type = "modify"
    /\ call.incoming_deltas[2].delta_type = "delete"
    /\ call.incoming_deltas[1].block_id = call.base_deltas[1].block_id
    /\ call.incoming_deltas[2].block_id = call.base_deltas[1].block_id
    /\ call.base_deltas[1].token_end < call.incoming_deltas[1].token_start
    /\ Len(call.ret) = 1
    /\ call.ret[1].conflict_type = "delete_modify"

\* ------------------------------------------------------------------------
\* SpecMerge: MergeEngine::merge applied to every pair of documents of up
\* to MaxMergeBlocks blocks in total, built by Block::new; the blocks of a
\* call either all carry the token stream of their text or all have the
\* empty token stream Block::new leaves
\* ------------------------------------------------------------------------
MaxMergeBlocks == 3
BaseText == <<"the", "borrower", "shall", "repay", "on", "the", "first", "day">>
IncomingText == <<"the", "borrower", "must", "repay", "on", "the", "second", "day">>
MergeTexts ==
    { BaseText, IncomingText, <<"first", "day">>, <<"day", "day">>, <<"day", "first">> }
MergeKinds == AlignPaths \X MergeTexts
MergeSizes ==
    { nm \in (0..MaxMergeBlocks) \X (0..MaxMergeBlocks) : nm[1] + nm[2] <= MaxMergeBlocks }

\* Block::new, and the token stream filled in by the caller when with_tokens
MergeBlock(doc, k, kind, with_tokens) ==
    [NewBlock(<<doc, k>>, "Clause", kind[1], kind[2]) EXCEPT
        !.tokens = IF with_tokens THEN tokenize(kind[2]) ELSE <<>>]

InitMerge ==
    /\ workflows = <<>>
    /\ workflow_events = <<>>
    /\ documents = {}
    /\ blocks = <<>>
    /\ tokens = <<>>
    /\ clock = 0
    /\ result = NoResult
    /\ conn = [c \in Conns |-> NoConn]
    /\ \E nm \in MergeSizes, with_tokens \in BOOLEAN :
          \E b \in [1..nm[1] -> MergeKinds], i \in [1..nm[2] -> MergeKinds] :
              call = [fn |-> "merge_input",
                      base_blocks |-> [k \in 1..nm[1] |-> MergeBlock("base", k, b[k], with_tokens)],
                      incoming_blocks |-> [k \in 1..nm[2] |-> MergeBlock("incoming", k, i[k], with_tokens)]]

call_merge ==
    /\ call.fn = "merge_input"
    /\ \E r \in merge(call.base_blocks, call.incoming_blocks) :
          call' = [fn |-> "merge", base_blocks |-> call.base_blocks,
                   incoming_blocks |-> call.incoming_blocks, ret |-> r]
    /\ UNCHANGED <<documents, blocks, tokens, workflows, workflow_events, clock, result, conn>>

NextMerge == call_merge

SpecMerge == InitMerge /\ [][NextMerge]_vars

\* ------------------------------------------------------------------------
\* SpecResolve: any sequence of MergeEngine::resolve_conflict calls on one
\* conflict made by MergeConflict::new; result holds the conflict
\* ------------------------------------------------------------------------
ConflictType == { "content_overlap", "move_collision", "delete_modify" }
NewConflicts ==
    { MergeConflict(b, t, bc, ic) :
        b \in DeltaBlockIds, t \in ConflictType,
        bc \in { None, Some(<<"base">>) }, ic \in { None, Some(<<"incoming">>) } }

InitResolve ==
    /\ workflows = <<>>
    /\ workflow_events = <<>>
    /\ documents = {}
    /\ blocks = <<>>
    /\ tokens = <<>>
    /\ clock = 0
    /\ result \in NewConflicts
    /\ conn = [c \in Conns |-> NoConn]
    /\ call = NoCall

call_resolve_conflict(resolution) ==
    /\ \E r \in { resolve_conflict(result, resolution) } :
          /\ result' = r.conflict
          /\ call' = [fn |-> "resolve_conflict", before |-> result.resolution,
                      resolution |-> resolution, ret |-> r.ret]
    /\ UNCHANGED <<documents, blocks, tokens, workflows, workflow_events, clock, conn>>

NextResolve == \E resolution \in ConflictResolution : call_resolve_conflict(resolution)

SpecResolve == InitResolve /\ [][NextResolve]_vars

\* C11: once the resolution of a conflict is no longer pending, no
\* resolve_conflict call makes it pending again.
C11_ResolvedNeverPendingAgain ==
    [][result.resolution # "pending" => result'.resolution # "pending"]_vars

\* a resolved conflict on which a call asking for pending was just rejected
C11_Witness ==
    /\ call.fn = "resolve_conflict"
    /\ call.before = "accepted_base"
    /\ call.resolution = "pending"
    /\ ~call.ret.ok
    /\ result.resolution = "accepted_base"

ConflictsOn(ret, block_id) ==
    { k \in 1..Len(ret.conflicts) : ret.conflicts[k].block_id = block_id }

PairedRecords(base_blocks, incoming_blocks) ==
    LET alignments == align_blocks(base_blocks, incoming_blocks)
    IN { alignments[k] : k \in { j \in 1..Len(alignments) : alignments[j].kind \in Paired } }

\* C13: a base block with the text BaseText aligned with an incoming block
\* with the text IncomingText gets at least one content_overlap conflict,
\* whether the blocks carry their token streams or empty ones.
C13_SubstitutionsConflict ==
    call.fn = "merge" =>
        \A rec \in PairedRecords(call.base_blocks, call.incoming_blocks) :
            LET base_block == At(call.base_blocks, rec.left)
                inc_block == At(call.incoming_blocks, rec.right)
            IN (base_block.canonical_text = BaseText /\ inc_block.canonical_text = IncomingText)
                   => \E k \in ConflictsOn(call.ret, base_block.id) :
                          call.ret.conflicts[k].conflict_type = "content_overlap"

DistinctPaths(doc) ==
    \A j, k \in 1..Len(doc) : doc[j].structural_path = doc[k].structural_path => j = k

DifferingWords(a, b) == { p \in 1..Len(a) : a[p] # b[p] }

\* the documents have the same paths in the same order and the same texts,
\* but for one block whose text has one word replaced
OneWordChange(base_blocks, incoming_blocks) ==
    /\ Len(base_blocks) = Len(incoming_blocks)
    /\ DistinctPaths(base_blocks)
    /\ \A k \in 1..Len(base_blocks) :
          /\ base_blocks[k].structural_path = incoming_blocks[k].structural_path
          /\ Len(base_blocks[k].canonical_text) = Len(incoming_blocks[k].canonical_text)
    /\ \E k \in 1..Len(base_blocks) :
          /\ Cardinality(DifferingWords(base_blocks[k].canonical_text,
                                        incoming_blocks[k].canonical_text)) = 1
          /\ \A j \in 1..Len(base_blocks) :
                j # k => base_blocks[j].canonical_text = incoming_blocks[j].canonical_text

\* C14: when the incoming document differs from the base by a one-word
\* change in one block at the same path, merge reports no conflict and
\* pending_review = 0.
C14_OneSidedEditAutoMerges ==
    (call.fn = "merge" /\ OneWordChange(call.base_blocks, call.incoming_blocks)) =>
        /\ call.ret.conflicts = <<>>
        /\ call.ret.pending_review = 0

\* C15: in the MergeResult merge returns, pending_review is the number of
\* conflicts whose resolution is pending, and every conflict is pending.
C15_PendingReviewCountsConflicts ==
    call.fn = "merge" =>
        /\ \A k \in 1..Len(call.ret.conflicts) : call.ret.conflicts[k].resolution = "pending"
        /\ call.ret.pending_review = Len(call.ret.conflicts)

C15_Witness ==
    /\ call.fn = "merge"
    /\ call.ret.pending_review >= 1
    /\ call.ret.auto_resolved = 0

\* the alignment records that produced no conflict
ConflictFree(base_blocks, incoming_blocks, ret) ==
    LET alignments == align_blocks(base_blocks, incoming_blocks)
    IN { k \in 1..Len(alignments) :
           alignments[k].kind \in Paired =>
               ConflictsOn(ret, At(base_blocks, alignments[k].left).id) = {} }

SameDocument(base_blocks, incoming_blocks) ==
    /\ Len(base_blocks) = Len(incoming_blocks)
    /\ DistinctPaths(base_blocks)
    /\ \A k \in 1..Len(base_blocks) :
          /\ base_blocks[k].structural_path = incoming_blocks[k].structural_path
          /\ base_blocks[k].canonical_text = incoming_blocks[k].canonical_text

MovedUnchanged(base_blocks, incoming_blocks) ==
    /\ Len(base_blocks) = 1 /\ Len(incoming_blocks) = 1
    /\ base_blocks[1].structural_path # incoming_blocks[1].structural_path
    /\ base_blocks[1].canonical_text = incoming_blocks[1].canonical_text

\* C16: auto_resolved is the number of alignment records that produced no
\* conflict: every inserted record, every deleted record and every pair
\* without a conflict counts 1, every pair with a conflict counts 0; so a
\* document merged with itself gives no conflict and auto_resolved = its
\* number of blocks, and one moved block with unchanged text gives
\* auto_resolved = 1 and no conflict.
C16_AutoResolvedCountsConflictFree ==
    call.fn = "merge" =>
        /\ call.ret.auto_resolved =
               Cardinality(ConflictFree(call.base_blocks, call.incoming_blocks, call.ret))
        /\ SameDocument(call.base_blocks, call.incoming_blocks) =>
               /\ call.ret.conflicts = <<>>
               /\ call.ret.auto_resolved = Len(call.base_blocks)
        /\ MovedUnchanged(call.base_blocks, call.incoming_blocks) =>
               /\ call.ret.conflicts = <<>>
               /\ call.ret.auto_resolved = 1

\* a merge with a deleted record, an inserted record and a pair that
\* produced a conflict
C16_Witness ==
    /\ call.fn = "merge"
    /\ Len(call.ret.conflicts) >= 1
    /\ call.ret.auto_resolved = 1
    /\ Len(call.base_blocks) = 2
    /\ Len(call.incoming_blocks) = 1

\* ------------------------------------------------------------------------
\* Emission order of align_blocks
\* ------------------------------------------------------------------------
HasLeft(rec) == rec.kind \in Paired \cup { "deleted_left" }

\* the positions of the pairs whose right index is above ri
PairsAbove(ret, ri) == { k \in 1..Len(ret) : ret[k].kind \in Paired /\ ret[k].right > ri }

SetMin(S) == CHOOSE x \in S : \A y \in S : x <= y

\* the example of the specification: A and C keep their paths, B is new
OrderLeft ==
    << NewBlock("a", "Clause", "1.1", <<"a", "b", "c">>),
       NewBlock("c", "Clause", "2.1", <<"e">>) >>
OrderRight ==
    << NewBlock("a", "Clause", "1.1", <<"a", "b", "c">>),
       NewBlock("b", "Clause", "2.1", <<"a", "b", "c", "d">>),
       NewBlock("c", "Clause", "2.1", <<"e">>) >>

\* C21: the records with a left index come with strictly increasing left
\* index; the Inserted record of an unmatched right index rj comes in the
\* run of Inserted records right before the first pair whose right index
\* is above rj, and after every record with a left index when there is no
\* such pair.
C21_EmissionOrder ==
    call.fn = "align_blocks" =>
        /\ \A j, k \in 1..Len(call.ret) :
              (j < k /\ HasLeft(call.ret[j]) /\ HasLeft(call.ret[k]))
                  => call.ret[j].left < call.ret[k].left
        /\ \A p \in 1..Len(call.ret) :
              call.ret[p].kind = "inserted_right" =>
                  LET above == PairsAbove(call.ret, call.ret[p].right)
                  IN IF above = {}
                     THEN \A k \in 1..Len(call.ret) : HasLeft(call.ret[k]) => k < p
                     ELSE /\ p < SetMin(above)
                          /\ \A k \in p..(SetMin(above) - 1) :
                                call.ret[k].kind = "inserted_right"
        /\ align_blocks(OrderLeft, OrderRight)
               = << [kind |-> "matched", left |-> 0, right |-> 0,
                     similarity |-> [num |-> 3, den |-> 3]],
                    [kind |-> "inserted_right", right |-> 1],
                    [kind |-> "matched", left |-> 1, right |-> 2,
                     similarity |-> [num |-> 1, den |-> 1]] >>

\* an unmatched right block ahead of the matched one: Inserted(0), then
\* the pair (0, 1)
C21_Witness ==
    /\ call.fn = "align_blocks"
    /\ Len(call.ret) = 2
    /\ call.ret[1] = [kind |-> "inserted_right", right |-> 0]
    /\ call.ret[2].kind \in Paired
    /\ call.ret[2].right = 1

\* ------------------------------------------------------------------------
\* Determinism of align_blocks
\* ------------------------------------------------------------------------
\* every order in which a hash container holding `keys` can be iterated
HashOrders(keys) ==
    { order \in [1..Cardinality(keys) -> keys] :
        \A i, j \in 1..Cardinality(keys) : order[i] = order[j] => i = j }

\* the rule of the specification for pass 3: of the candidates whose two
\* indices are both free the one with the highest similarity is taken, on a
\* tie the one with the earlier left index, then the earlier right index
RECURSIVE GreedyByRule(_, _, _)
GreedyByRule(cands, left_used, right_used) ==
    LET free == { c \in cands : c.l \notin left_used /\ c.r \notin right_used }
    IN IF free = {} THEN <<>>
       ELSE LET best == CHOOSE c \in free :
                            \A d \in free :
                                \/ SimGt(c.sim, d.sim)
                                \/ /\ ~SimGt(d.sim, c.sim)
                                   /\ (c.l < d.l \/ (c.l = d.l /\ c.r <= d.r))
            IN << <<best.l, best.r>> >>
               \o GreedyByRule(cands, left_used \cup {best.l}, right_used \cup {best.r})

\* C22: the output of align_blocks is fixed by its input: the pairs pass 3
\* adds are the ones the tie-break rule names (higher similarity first, then
\* the earlier left index, then the earlier right index), and the one loop
\* over a hash map, in block_similarity, gives the same similarity in every
\* iteration order.
C22_AlignmentDeterministic ==
    call.fn = "align_blocks" =>
        LET p2 == after_pass2(call.left, call.right)
            p3 == after_pass3(call.left, call.right)
            cands == candidates(call.left, call.right, p2)
            added == [k \in 1..(Len(p3.pairs) - Len(p2.pairs)) |->
                         << p3.pairs[Len(p2.pairs) + k].l, p3.pairs[Len(p2.pairs) + k].r >>]
        IN /\ added = GreedyByRule({ cands[k] : k \in 1..Len(cands) }, {}, {})
           /\ \A k \in 1..Len(call.ret) :
                 call.ret[k].kind \in Paired =>
                     LET left_tokens == token_set(At(call.left, call.ret[k].left))
                         right_tokens == token_set(At(call.right, call.ret[k].right))
                     IN \A order \in HashOrders({ left_tokens[i] : i \in 1..Len(left_tokens) }) :
                            \/ left_tokens = <<>>
                            \/ right_tokens = <<>>
                            \/ call.ret[k].similarity.num
                                   = intersection_in_order(order, left_tokens, right_tokens)

\* one left block against two right blocks that tie on similarity 1, on
\* another path and with other anchors: the earlier right block is taken
C22_Witness ==
    /\ call.fn = "align_blocks"
    /\ Len(call.left) = 1
    /\ Len(call.right) = 2
    /\ call.right[1] = call.right[2]
    /\ call.left[1].canonical_text = call.right[1].canonical_text
    /\ call.left[1].structural_path # call.right[1].structural_path
    /\ call.left[1].anchor_signature # call.right[1].anchor_signature
    /\ call.ret = << [kind |-> "moved", left |-> 0, right |-> 0,
                      similarity |-> block_similarity(call.left[1], call.right[1])],
                     [kind |-> "inserted_right", right |-> 1] >>

\* ------------------------------------------------------------------------
\* Round trip of token_diff
\* ------------------------------------------------------------------------
RECURSIVE ConcatTokens(_, _)
ConcatTokens(diffs, side) ==
    IF diffs = <<>> THEN <<>>
    ELSE (IF side = "left" THEN Head(diffs).left_tokens ELSE Head(diffs).right_tokens)
         \o ConcatTokens(Tail(diffs), side)

TokenTexts(toks) == [k \in 1..Len(toks) |-> toks[k].text]

\* C23: the left_tokens of the groups token_diff returns, concatenated in
\* order, are the texts of L, the right_tokens are the texts of R, and an
\* Equal group has equally many tokens on both sides, pairwise equal in
\* normalized form.
C23_TokenDiffRoundTrip ==
    call.fn = "token_diff" =>
        /\ ConcatTokens(call.diffs, "left") = TokenTexts(call.left)
        /\ ConcatTokens(call.diffs, "right") = TokenTexts(call.right)
        /\ \A k \in 1..Len(call.diffs) :
              call.diffs[k].kind = "equal" =>
                  /\ Len(call.diffs[k].left_tokens) = Len(call.diffs[k].right_tokens)
                  /\ \A i \in 1..Len(call.diffs[k].left_tokens) :
                        normalize_token(call.diffs[k].left_tokens[i])
                            = normalize_token(call.diffs[k].right_tokens[i])

\* ------------------------------------------------------------------------
\* Which diffs merge counts as auto-resolved
\* ------------------------------------------------------------------------
HasGroup(diffs, kind) == \E k \in 1..Len(diffs) : diffs[k].kind = kind

\* C27: for the diff of a pair, the conflicts merge detects between the
\* base deltas and the incoming deltas are empty (the pair is counted
\* auto-resolved) exactly when the diff has no Substituted group and does
\* not have both a Deleted and an Inserted group; a Substituted group gives
\* a content_overlap conflict, a Deleted group with any incoming delta a
\* delete_modify conflict.
C27_AutoResolvedIffOneSided ==
    call.fn = "token_diff" =>
        LET conflicts == detect_conflicts(call.base_deltas, call.incoming_deltas)
        IN /\ (conflicts = <<>>)
                  <=> /\ ~HasGroup(call.diffs, "substituted")
                      /\ ~(HasGroup(call.diffs, "deleted") /\ HasGroup(call.diffs, "inserted"))
           /\ HasGroup(call.diffs, "substituted")
                  => \E k \in 1..Len(conflicts) : conflicts[k].conflict_type = "content_overlap"
           /\ (HasGroup(call.diffs, "deleted") /\ call.incoming_deltas # <<>>)
                  => \E k \in 1..Len(conflicts) : conflicts[k].conflict_type = "delete_modify"

\* ------------------------------------------------------------------------
\* What pass 3 of align_blocks leaves unmatched
\* ------------------------------------------------------------------------
\* C28: after pass 3 no unmatched left block and unmatched right block have
\* similarity >= 0.7, pass 4 adds no pair, and no Deleted and Inserted
\* record of the output name blocks of similarity >= 0.7.
C28_Pass3LeavesNoSimilarPair ==
    call.fn = "align_blocks" =>
        LET p3 == after_pass3(call.left, call.right)
        IN /\ \A li \in 0..(Len(call.left) - 1), ri \in 0..(Len(call.right) - 1) :
                 (li \notin p3.left_matched /\ ri \notin p3.right_matched)
                     => ~SimGe(block_similarity(At(call.left, li), At(call.right, ri)),
                               SIMILARITY_THRESHOLD)
           /\ Cardinality({ k \in 1..Len(call.ret) : call.ret[k].kind \in Paired })
                  = Len(p3.pairs)
           /\ \A j, k \in 1..Len(call.ret) :
                 (call.ret[j].kind = "deleted_left" /\ call.ret[k].kind = "inserted_right")
                     => ~SimGe(block_similarity(At(call.left, call.ret[j].left),
                                                At(call.right, call.ret[k].right)),
                               SIMILARITY_THRESHOLD)

\* pass 3 has paired one left block, the other left block and the right
\* block left over are dissimilar
C28_Witness ==
    /\ call.fn = "align_blocks"
    /\ Len(call.left) = 1
    /\ Len(call.right) = 2
    /\ Len(after_pass2(call.left, call.right).pairs) = 0
    /\ Len(after_pass3(call.left, call.right).pairs) = 1
    /\ \E k \in 1..Len(call.ret) : call.ret[k].kind = "inserted_right"

\* ------------------------------------------------------------------------
\* Replayability of the log under concurrent submit_event calls
\* ------------------------------------------------------------------------
\* C26: for every interleaving of concurrent submit_event calls the log of
\* every workflow stays replayable: each event is a legal transition from
\* the state the events before it in seq order replay to, so get_workflow
\* (and with it every later submit_event) never fails on the stored history.
C26_LogReplayable ==
    \A w \in DOMAIN workflows :
        get_workflow(workflows, workflow_events, w).ok

\* ------------------------------------------------------------------------
\* The stages of a workflow, in order
\* ------------------------------------------------------------------------
StageRank(state) ==
    CASE state = "DRAFT" -> 0
      [] state = "COMPARE_RUNNING" -> 1
      [] state = "FLOW_CREATED" -> 2
      [] state = "IN_REVIEW" -> 3
      [] state = "REVIEW_CLOSED" -> 4
      [] state = "COMPILING_EDITS" -> 5
      [] state = "READY_FOR_FINALIZATION" -> 6
      [] state = "COMPLETED" -> 7

HappyPath ==
    << "compare_started", "compare_completed", "review_started", "review_closed",
       "edit_compilation_started", "edit_compilation_completed", "workflow_completed" >>

\* names[j..] occur in log[i..] in that order (other events may lie between)
RECURSIVE ContainsInOrder(_, _, _, _)
ContainsInOrder(log, i, names, j) ==
    IF j > Len(names) THEN TRUE
    ELSE IF i > Len(log) THEN FALSE
    ELSE IF log[i].event_type = names[j]
         THEN ContainsInOrder(log, i + 1, names, j + 1)
         ELSE ContainsInOrder(log, i + 1, names, j)

\* the step a submit_event call makes from state s to state t
StageStep(s, t) ==
    \/ t = s
    \/ /\ t = "ABORTED"
       /\ s \in { "DRAFT", "IN_REVIEW", "REVIEW_CLOSED" }
    \/ /\ s # "ABORTED"
       /\ t # "ABORTED"
       /\ StageRank(t) = StageRank(s) + 1

\* C29: every successful submit_event leaves the state unchanged, moves it
\* to the stage of rank exactly one higher, or moves it to ABORTED, and
\* ABORTED is entered only from DRAFT, IN_REVIEW or REVIEW_CLOSED; the log
\* of a COMPLETED workflow contains the seven events of the happy path in
\* their order.
C29_StagesInOrder ==
    [][\A w \in DOMAIN workflows :
          LET before == get_workflow(workflows, workflow_events, w)
              after == get_workflow(workflows', workflow_events', w)
          IN /\ StageStep(workflows[w].state, workflows'[w].state)
             /\ (before.ok /\ after.ok)
                    => StageStep(before.val.state, after.val.state)
             /\ workflows'[w].state = "COMPLETED"
                    => ContainsInOrder(get_events(workflow_events', w), 1, HappyPath, 1)]_vars

\* ------------------------------------------------------------------------
\* validator.rs legal_transitions, and validate_transition called again and
\* again for one workflow: each call is made with the state the last
\* accepted event gave (DRAFT at first) and any event; a rejected event
\* leaves that state.  Self-loop events are offered while fewer than
\* MaxLoopClock of them were accepted.
\* ------------------------------------------------------------------------
legal_transitions(state) ==
    CASE state = "DRAFT" -> << "workflow_created", "compare_started", "workflow_aborted" >>
      [] state = "COMPARE_RUNNING" -> << "compare_completed" >>
      [] state = "FLOW_CREATED" -> << "review_started" >>
      [] state = "IN_REVIEW" -> << "reviewer_assigned", "delta_submitted",
                                   "review_closed", "workflow_aborted" >>
      [] state = "REVIEW_CLOSED" -> << "edit_compilation_started", "workflow_aborted" >>
      [] state = "COMPILING_EDITS" -> << "edit_compilation_completed" >>
      [] state = "READY_FOR_FINALIZATION" -> << "workflow_completed" >>
      [] state = "COMPLETED" -> << >>
      [] state = "ABORTED" -> << >>

MaxLoopClock == 6

\* Workflow::new: state DRAFT, no event accepted yet
InitLive ==
    /\ workflows = <<>>
    /\ workflow_events = <<>>
    /\ documents = {}
    /\ blocks = <<>>
    /\ tokens = <<>>
    /\ clock = 0
    /\ result = NoResult
    /\ conn = [c \in Conns |-> NoConn]
    /\ call = [fn |-> "workflow", state |-> "DRAFT", events |-> <<>>, loops |-> 0]

\* validate_transition(&state, &event_type): Ok(next) is the state of the
\* next call, Err leaves it
submit(event_type) ==
    /\ call.fn = "workflow"
    /\ \E new_state \in {validate_transition(call.state, event_type)} :
          IF ~new_state.ok
          THEN /\ result' = [op |-> "validate_transition", ret |-> new_state]
               /\ UNCHANGED call
          ELSE /\ new_state.val # call.state \/ call.loops < MaxLoopClock
               /\ call' = [call EXCEPT !.state = new_state.val,
                                       !.events = Append(@, event_type),
                                       !.loops = IF new_state.val = call.state
                                                 THEN @ + 1 ELSE @]
               /\ result' = [op |-> "validate_transition", ret |-> new_state]
    /\ UNCHANGED <<documents, blocks, tokens, workflows, workflow_events, clock, conn>>

NextLive == \E e \in EventType : submit(e)

\* an accepted event that changes the state
Progress ==
    /\ NextLive
    /\ call'.state # call.state

\* the callers keep submitting events that change the state as long as
\* there is one
SpecLive == InitLive /\ [][NextLive]_vars /\ WF_vars(Progress)

\* the states legal events lead to from the states of S, S included
RECURSIVE ReachableStates(_)
ReachableStates(S) ==
    LET step == { validate_transition(s, e).val :
                    <<s, e>> \in { p \in S \X EventType :
                                      validate_transition(p[1], p[2]).ok } }
    IN IF step \subseteq S THEN S ELSE ReachableStates(S \cup step)

\* C30: the workflow never deadlocks before a terminal state: in every
\* reachable state of a workflow, some legal event changes the state unless
\* the state is terminal, legal_transitions is non-empty exactly for the
\* non-terminal states, COMPLETED or ABORTED is reachable through legal
\* events, and when events that change the state keep being submitted the
\* workflow eventually reaches COMPLETED or ABORTED.
C30_NoDeadlockBeforeTerminal ==
    /\ [](call.fn = "workflow" =>
            LET s == call.state
            IN /\ (s \notin Terminal) =>
                     \E e \in EventType : /\ validate_transition(s, e).ok
                                          /\ validate_transition(s, e).val # s
               /\ (legal_transitions(s) # << >>) <=> (s \notin Terminal)
               /\ ReachableStates({s}) \cap Terminal # {})
    /\ (call.fn = "workflow") ~> (call.state \in Terminal)

\* a workflow aborted in review after a self-loop event
C30_Witness ==
    /\ call.fn = "workflow"
    /\ call.state = "ABORTED"
    /\ \E i \in 1..Len(call.events) : call.events[i] = "reviewer_assigned"

\* ------------------------------------------------------------------------
\* rt-core db.rs: SqliteBlockStore over the tables blocks and tokens
\* (schema.rs) with PRAGMA foreign_keys = ON.  blocks is keyed by its
\* PRIMARY KEY id; tokens is the list of rows in rowid order (its primary
\* key is a fresh uuid).  Only insert_blocks opens a transaction: every
\* other statement is committed on its own, so the statements of calls on
\* different pooled connections interleave.
\* The blocks of the model are root blocks (parent_id None) without runs and
\* without a tracked change; block_type, level, anchor_signature,
\* display_text, formatting_meta and position_index are copied through by
\* the code and left out, as are the columns of a document but its id.
\* ------------------------------------------------------------------------
MaxStoredBlocks == 2
MaxBatch == 2

BlockIds == 1..MaxStoredBlocks
StorePaths == { "1.1", "1.2" }
StoreTexts == { <<"hello", "world">> }
\* the digests of the texts and, as make_block in the tests of db.rs
\* stores one ("abc123"), a digest of no text
StoreHashes ==
    { compute_clause_hash(text) : text \in StoreTexts \cup { <<"abc123">> } }
\* the texts of the tokens of a block
StoreTokens == { <<>>, <<"hello">> }

\* the documents of the store
StoreDocumentIds == { DocumentId }

StoreBlocks ==
    [ id : BlockIds, document_id : StoreDocumentIds, structural_path : StorePaths,
      clause_hash : StoreHashes, canonical_text : StoreTexts, tokens : StoreTokens ]

\* the blocks insert_blocks is called with: one document as make_block
\* builds it, each block with its hash and its tokens
BatchBlocks ==
    { b \in StoreBlocks : /\ b.document_id = DocumentId
                          /\ b.clause_hash = compute_clause_hash(b.canonical_text)
                          /\ b.tokens # <<>> }

RECURSIVE SeqsUpTo(_, _)
SeqsUpTo(S, n) ==
    IF n = 0 THEN { <<>> }
    ELSE LET shorter == SeqsUpTo(S, n - 1)
         IN shorter \cup { Append(q, x) : q \in { r \in shorter : Len(r) = n - 1 }, x \in S }

Batches == SeqsUpTo(BatchBlocks, MaxBatch)

\* the columns of the row of a block
params(block) ==
    [document_id |-> block.document_id,
     structural_path |-> block.structural_path,
     clause_hash |-> block.clause_hash,
     canonical_text |-> block.canonical_text]

\* document_id REFERENCES documents(id), and
\* UNIQUE INDEX uq_blocks_document_structural_path (document_id, structural_path)
constraint_failed(docs, rows, block) ==
    \/ block.document_id \notin docs
    \/ \E id \in DOMAIN rows \ {block.id} :
          /\ rows[id].document_id = block.document_id
          /\ rows[id].structural_path = block.structural_path

\* INSERT INTO blocks: id is the primary key
insert_row(docs, rows, block) ==
    IF block.id \in DOMAIN rows \/ constraint_failed(docs, rows, block)
    THEN Err("Database")
    ELSE Ok([id \in DOMAIN rows \cup {block.id} |->
                IF id = block.id THEN params(block) ELSE rows[id]])

\* INSERT INTO tokens: block_id REFERENCES blocks(id)
insert_token(rows, toks, block_id, seq, text) ==
    IF block_id \notin DOMAIN rows
    THEN Err("Database")
    ELSE Ok(Append(toks, [block_id |-> block_id, seq |-> seq, text |-> text]))

\* for (seq, token) in block.tokens.iter().enumerate(), from token seq on
RECURSIVE insert_tokens(_, _, _, _)
insert_tokens(rows, toks, block, seq) ==
    IF seq >= Len(block.tokens) THEN Ok(toks)
    ELSE LET r == insert_token(rows, toks, block.id, seq, At(block.tokens, seq))
         IN IF ~r.ok THEN r ELSE insert_tokens(rows, r.val, block, seq + 1)

\* insert_block_row with no statement of another connection between its own
insert_block_row(docs, rows, toks, block) ==
    LET r == insert_row(docs, rows, block)
    IN IF ~r.ok THEN r
       ELSE LET t == insert_tokens(r.val, toks, block, 0)
            IN IF ~t.ok THEN t ELSE Ok([blocks |-> r.val, tokens |-> t.val])

\* for block in blocks { insert_block_row(&tx, block)?; }
RECURSIVE insert_blocks_tx(_, _, _, _, _)
insert_blocks_tx(docs, rows, toks, batch, i) ==
    IF i > Len(batch) THEN Ok([blocks |-> rows, tokens |-> toks])
    ELSE LET r == insert_block_row(docs, rows, toks, batch[i])
         IN IF ~r.ok THEN r
            ELSE insert_blocks_tx(docs, r.val.blocks, r.val.tokens, batch, i + 1)

\* conn.transaction() ... tx.commit(): an error drops tx, which rolls back
insert_blocks(docs, rows, toks, batch) ==
    LET r == insert_blocks_tx(docs, rows, toks, batch, 1)
    IN IF r.ok THEN [blocks |-> r.val.blocks, tokens |-> r.val.tokens, ret |-> Ok("unit")]
       ELSE [blocks |-> rows, tokens |-> toks, ret |-> r]

\* UPDATE blocks SET ... WHERE id = ?1
update_block(docs, rows, block) ==
    IF block.id \notin DOMAIN rows
    THEN [blocks |-> rows, ret |-> Err("NotFound")]
    ELSE IF constraint_failed(docs, rows, block)
    THEN [blocks |-> rows, ret |-> Err("Database")]
    ELSE [blocks |-> [rows EXCEPT ![block.id] = params(block)], ret |-> Ok("unit")]

\* DELETE FROM blocks WHERE id = ?1; tokens.block_id ... ON DELETE CASCADE
delete_block(rows, toks, id) ==
    IF id \notin DOMAIN rows
    THEN [blocks |-> rows, tokens |-> toks, ret |-> Err("NotFound")]
    ELSE [blocks |-> [i \in DOMAIN rows \ {id} |-> rows[i]],
          tokens |-> SelectSeq(toks, LAMBDA t : t.block_id # id),
          ret |-> Ok("unit")]

\* the columns of the row, as they are; tokens: Vec::new()
row_to_block(id, row) ==
    [id |-> id,
     document_id |-> row.document_id,
     structural_path |-> row.structural_path,
     clause_hash |-> row.clause_hash,
     canonical_text |-> row.canonical_text,
     tokens |-> <<>>]

\* SELECT ... FROM tokens WHERE block_id = ?1 ORDER BY seq ASC
populate_tokens_and_runs(toks, block) ==
    LET found == sort_by_key(SelectSeq(toks, LAMBDA t : t.block_id = block.id))
    IN [block EXCEPT !.tokens = [i \in 1..Len(found) |-> found[i].text]]

\* INSERT INTO documents: id is the primary key
insert_document(docs, id) ==
    IF id \in docs
    THEN [documents |-> docs, ret |-> Err("Database")]
    ELSE [documents |-> docs \cup {id}, ret |-> Ok("unit")]

\* a fresh store: the schema, no row
InitStore ==
    /\ workflows = <<>>
    /\ workflow_events = <<>>
    /\ documents = {}
    /\ blocks = <<>>
    /\ tokens = <<>>
    /\ clock = 0
    /\ result = NoResult
    /\ conn = [c \in Conns |-> NoConn]
    /\ call = NoCall

InsertDocument(id) ==
    /\ \E r \in {insert_document(documents, id)} :
          /\ documents' = r.documents
          /\ result' = [op |-> "insert_document", ret |-> r.ret]
    /\ UNCHANGED <<blocks, tokens, workflows, workflow_events, clock, conn, call>>

StoreOps ==
    { "insert_document", "insert_block", "insert_blocks", "update_block", "delete_block",
      "get_block" }

\* self.conn(): the pool hands out an idle connection; the connections are
\* alike, the first idle one is taken
Pooled(c) == Idle(c) /\ \A d \in Conns : Idle(d) => c <= d

\* insert_block: INSERT INTO blocks
insert_block_insert_row(c, block) ==
    /\ Pooled(c)
    /\ \E r \in {insert_row(documents, blocks, block)} :
          IF ~r.ok
          THEN /\ result' = [op |-> "insert_block", ret |-> r]
               /\ UNCHANGED <<documents, blocks, conn>>
          ELSE /\ blocks' = r.val
               /\ IF block.tokens = <<>>
                  THEN /\ result' = [op |-> "insert_block", ret |-> Ok("unit")]
                       /\ UNCHANGED conn
                  ELSE /\ conn' = [conn EXCEPT ![c] =
                                      [pc |-> "insert_token", id |-> block.id,
                                       tokens |-> block.tokens, seq |-> 0]]
                       /\ UNCHANGED result
    /\ UNCHANGED <<documents, tokens, workflows, workflow_events, clock, call>>

\* insert_block: the next INSERT INTO tokens
insert_block_insert_token(c) ==
    /\ conn[c].pc = "insert_token"
    /\ \E r \in {insert_token(blocks, tokens, conn[c].id, conn[c].seq,
                              At(conn[c].tokens, conn[c].seq))} :
          IF ~r.ok
          THEN /\ result' = [op |-> "insert_block", ret |-> r]
               /\ conn' = [conn EXCEPT ![c] = NoConn]
               /\ UNCHANGED tokens
          ELSE /\ tokens' = r.val
               /\ IF conn[c].seq + 1 >= Len(conn[c].tokens)
                  THEN /\ result' = [op |-> "insert_block", ret |-> Ok("unit")]
                       /\ conn' = [conn EXCEPT ![c] = NoConn]
                  ELSE /\ conn' = [conn EXCEPT ![c].seq = @ + 1]
                       /\ UNCHANGED result
    /\ UNCHANGED <<documents, blocks, workflows, workflow_events, clock, call>>

InsertBlocks(batch) ==
    /\ \E r \in {insert_blocks(documents, blocks, tokens, batch)} :
          /\ blocks' = r.blocks
          /\ tokens' = r.tokens
          /\ result' = [op |-> "insert_blocks", ret |-> r.ret]
    /\ UNCHANGED <<documents, workflows, workflow_events, clock, conn, call>>

UpdateBlock(block) ==
    /\ \E r \in {update_block(documents, blocks, block)} :
          /\ blocks' = r.blocks
          /\ result' = [op |-> "update_block", ret |-> r.ret]
    /\ UNCHANGED <<documents, tokens, workflows, workflow_events, clock, conn, call>>

DeleteBlock(id) ==
    /\ \E r \in {delete_block(blocks, tokens, id)} :
          /\ blocks' = r.blocks
          /\ tokens' = r.tokens
          /\ result' = [op |-> "delete_block", ret |-> r.ret]
    /\ UNCHANGED <<documents, workflows, workflow_events, clock, conn, call>>

\* get_block: SELECT ... FROM blocks WHERE id = ?1
get_block_select_row(c, id) ==
    /\ Pooled(c)
    /\ IF id \notin DOMAIN blocks
       THEN /\ result' = [op |-> "get_block", ret |-> Err("NotFound")]
            /\ UNCHANGED conn
       ELSE /\ conn' = [conn EXCEPT ![c] =
                           [pc |-> "get_tokens", block |-> row_to_block(id, blocks[id])]]
            /\ UNCHANGED result
    /\ UNCHANGED <<documents, blocks, tokens, workflows, workflow_events, clock, call>>

\* get_block: populate_tokens_and_runs; Ok(block)
get_block_populate(c) ==
    /\ conn[c].pc = "get_tokens"
    /\ result' = [op |-> "get_block",
                  ret |-> Ok(populate_tokens_and_runs(tokens, conn[c].block))]
    /\ conn' = [conn EXCEPT ![c] = NoConn]
    /\ UNCHANGED <<documents, blocks, tokens, workflows, workflow_events, clock, call>>

NextStore ==
    \/ \E id \in StoreDocumentIds : InsertDocument(id)
    \/ \E c \in Conns, op \in StoreOps : Pooled(c) /\ first_statement_fails(c, op)
    \/ \E c \in Conns, block \in StoreBlocks : insert_block_insert_row(c, block)
    \/ \E c \in Conns : insert_block_insert_token(c)
    \/ \E batch \in Batches : InsertBlocks(batch)
    \/ \E block \in StoreBlocks : UpdateBlock(block)
    \/ \E id \in BlockIds : DeleteBlock(id)
    \/ \E c \in Conns, id \in BlockIds : get_block_select_row(c, id)
    \/ \E c \in Conns : get_block_populate(c)
    \/ \E c \in Conns : statement_fails(c)
    \/ terminate

SpecStore == InitStore /\ [][NextStore]_vars

\* C25: no load returns a block whose clause_hash is not the hash of its
\* canonical_text: loading a block stored with another clause_hash fails
\* (with HashMismatch).
C25_LoadVerifiesHash ==
    (result.op = "get_block" /\ result.ret.ok) =>
        result.ret.val.clause_hash = compute_clause_hash(result.ret.val.canonical_text)

\* ------------------------------------------------------------------------
\* rt-compare worker.rs: CompareEngine::compare.  The documents are flat
\* lists of leaf blocks built by Block::new (flatten_blocks of such a list
\* is the list).  rayon is an external crate: every alignment record is
\* handed to some worker, the workers finish in any order, and the pairs
\* (idx, delta) are taken as collected in the order the workers finish.
\* Generated ids, document ids and elapsed_ms play no part and are left out.
\* ------------------------------------------------------------------------
ensure_tokens(block) ==
    IF block.tokens # <<>> THEN block.tokens ELSE tokenize(block.canonical_text)

\* build_delta: every BlockDelta the call can return (token_diff is the set
\* of the diffs the external diff engine may return)
build_delta(alignment, left_flat, right_flat) ==
    CASE alignment.kind = "matched" ->
             LET lb == At(left_flat, alignment.left)
                 rb == At(right_flat, alignment.right)
                 is_changed == lb.clause_hash # rb.clause_hash
             IN { [kind |-> "modified",
                   left_block_id |-> Some(lb.id), right_block_id |-> Some(rb.id),
                   left_ordinal |-> Some(alignment.left),
                   right_ordinal |-> Some(alignment.right),
                   token_diffs |-> d,
                   similarity_score |-> Some(alignment.similarity),
                   move_target_id |-> None] :
                    d \in IF is_changed
                          THEN token_diff(ensure_tokens(lb), ensure_tokens(rb))
                          ELSE { <<>> } }
      [] alignment.kind = "moved" ->
             LET lb == At(left_flat, alignment.left)
                 rb == At(right_flat, alignment.right)
             IN { [kind |-> "moved",
                   left_block_id |-> Some(lb.id), right_block_id |-> Some(rb.id),
                   left_ordinal |-> Some(alignment.left),
                   right_ordinal |-> Some(alignment.right),
                   token_diffs |-> d,
                   similarity_score |-> Some(alignment.similarity),
                   move_target_id |-> Some(rb.id)] :
                    d \in IF lb.clause_hash # rb.clause_hash
                          THEN token_diff(ensure_tokens(lb), ensure_tokens(rb))
                          ELSE { <<>> } }
      [] alignment.kind = "deleted_left" ->
             { [kind |-> "deleted",
                left_block_id |-> Some(At(left_flat, alignment.left).id),
                right_block_id |-> None,
                left_ordinal |-> Some(alignment.left), right_ordinal |-> None,
                token_diffs |-> <<>>, similarity_score |-> None,
                move_target_id |-> None] }
      [] alignment.kind = "inserted_right" ->
             { [kind |-> "inserted",
                left_block_id |-> None,
                right_block_id |-> Some(At(right_flat, alignment.right).id),
                left_ordinal |-> None, right_ordinal |-> Some(alignment.right),
                token_diffs |-> <<>>, similarity_score |-> None,
                move_target_id |-> None] }

CountKind(deltas, kind, with_diffs) ==
    Cardinality({ k \in 1..Len(deltas) :
                    /\ deltas[k].kind = kind
                    /\ (deltas[k].token_diffs # <<>>) \in with_diffs })

compute_stats(deltas, blocks_left, blocks_right) ==
    [blocks_left |-> blocks_left,
     blocks_right |-> blocks_right,
     inserted |-> CountKind(deltas, "inserted", BOOLEAN),
     deleted |-> CountKind(deltas, "deleted", BOOLEAN),
     modified |-> CountKind(deltas, "modified", {TRUE}),
     moved |-> CountKind(deltas, "moved", BOOLEAN),
     unchanged |-> CountKind(deltas, "modified", {FALSE})]

\* the collected pairs left in the order the workers finished
sort_by_idx_skipped(indexed_deltas) == indexed_deltas

\* indexed_deltas.sort_by_key(|(i, _)| *i): a stable sort on the index
RECURSIVE sort_by_idx(_)
sort_by_idx(indexed_deltas) ==
    IF indexed_deltas = <<>> THEN <<>>
    ELSE LET n == Len(indexed_deltas)
             sorted == sort_by_idx(SubSeq(indexed_deltas, 1, n - 1))
             e == indexed_deltas[n]
             k == Cardinality({ i \in 1..Len(sorted) : sorted[i][1] <= e[1] })
         IN SubSeq(sorted, 1, k) \o <<e>> \o SubSeq(sorted, k + 1, Len(sorted))

MaxCompareBlocks == 3

ComparePaths == { "1.1", "2.1" }
\* a word of 128 chars: the two texts agree on their first 128 chars, so
\* blocks of equal path get equal anchor signatures
LongWord ==
    "aaaaaaaaaaaaaaaaaaaaaaaaaaaaaaaaaaaaaaaaaaaaaaaaaaaaaaaaaaaaaaaaaaaaaaaaaaaaaaaaaaaaaaaaaaaaaaaaaaaaaaaaaaaaaaaaaaaaaaaaaaaaaaaa"
CompareTexts == { <<LongWord, "b", "c">>, <<LongWord, "b", "c", "d">> }
CompareShapes == ComparePaths \X CompareTexts
CompareSizes ==
    { nm \in (0..MaxCompareBlocks) \X (0..MaxCompareBlocks) :
        nm[1] + nm[2] <= MaxCompareBlocks }

\* make_block of the tests: Block::new(Clause, path, text, ..)
CompareDocument(side, shapes) ==
    [i \in 1..Len(shapes) |-> NewBlock(<<side, i - 1>>, "Clause", shapes[i][1], shapes[i][2])]

InitCompare ==
    /\ workflows = <<>>
    /\ workflow_events = <<>>
    /\ documents = {}
    /\ blocks = <<>>
    /\ tokens = <<>>
    /\ clock = 0
    /\ result = NoResult
    /\ conn = [c \in Conns |-> NoConn]
    /\ \E nm \in CompareSizes :
          \E l \in [1..nm[1] -> CompareShapes], r \in [1..nm[2] -> CompareShapes] :
              call = [fn |-> "compare_input",
                      left_blocks |-> CompareDocument("left", l),
                      right_blocks |-> CompareDocument("right", r)]

\* steps 1 and 2: flatten, align; the records are handed to the workers
compare_align ==
    /\ call.fn = "compare_input"
    /\ \E alignments \in {align_blocks(call.left_blocks, call.right_blocks)} :
          call' = [fn |-> "compare_par_iter",
                   left_blocks |-> call.left_blocks,
                   right_blocks |-> call.right_blocks,
                   alignments |-> alignments,
                   pending |-> 0..(Len(alignments) - 1),
                   indexed_deltas |-> <<>>]
    /\ UNCHANGED <<documents, workflows, workflow_events, blocks, tokens, clock, result, conn>>

\* steps 3 and 4: a worker finishes the closure for one record
compare_worker(idx) ==
    /\ call.fn = "compare_par_iter"
    /\ idx \in call.pending
    /\ \E delta \in build_delta(At(call.alignments, idx),
                                call.left_blocks, call.right_blocks) :
          call' = [call EXCEPT !.pending = @ \ {idx},
                               !.indexed_deltas = Append(@, <<idx, delta>>)]
    /\ UNCHANGED <<documents, workflows, workflow_events, blocks, tokens, clock, result, conn>>

\* collect is over: sort by index, strip the index, steps 5 and 6
compare_collect ==
    /\ call.fn = "compare_par_iter"
    /\ call.pending = {}
    /\ \E sorted \in {sort_by_idx(call.indexed_deltas)} :
          LET deltas == [k \in 1..Len(sorted) |-> sorted[k][2]]
          IN call' = [fn |-> "compare",
                      left_blocks |-> call.left_blocks,
                      right_blocks |-> call.right_blocks,
                      alignments |-> call.alignments,
                      indexed_deltas |-> call.indexed_deltas,
                      ret |-> [stats |-> compute_stats(deltas, Len(call.left_blocks),
                                                       Len(call.right_blocks)),
                               deltas |-> deltas]]
    /\ UNCHANGED <<documents, workflows, workflow_events, blocks, tokens, clock, result, conn>>

NextCompare ==
    \/ compare_align
    \/ \E idx \in 0..(MaxCompareBlocks - 1) : compare_worker(idx)
    \/ compare_collect

SpecCompare == InitCompare /\ [][NextCompare]_vars

\* C24: for every order in which the parallel workers finish, the k-th
\* delta compare returns is one built from the k-th alignment record, the
\* deltas follow the alignment stream (left ordinals increasing), and the
\* result is one a sequential run over the records gives.
C24_ParallelDeltasInOrder ==
    call.fn = "compare" =>
        /\ Len(call.ret.deltas) = Len(call.alignments)
        /\ \A k \in 1..Len(call.ret.deltas) :
              /\ call.ret.deltas[k]
                     \in build_delta(call.alignments[k], call.left_blocks, call.right_blocks)
              /\ \E j \in 1..Len(call.indexed_deltas) :
                    call.indexed_deltas[j] = <<k - 1, call.ret.deltas[k]>>
        /\ \A j, k \in 1..Len(call.ret.deltas) :
              (/\ j < k
               /\ call.ret.deltas[j].left_ordinal.some
               /\ call.ret.deltas[k].left_ordinal.some)
                  => call.ret.deltas[j].left_ordinal.val < call.ret.deltas[k].left_ordinal.val
        /\ call.ret.stats.inserted + call.ret.stats.deleted + call.ret.stats.modified
              + call.ret.stats.moved + call.ret.stats.unchanged = Len(call.alignments)

\* the worker of the second record finished before the one of the first
C24_Witness ==
    /\ call.fn = "compare"
    /\ Len(call.alignments) = 2
    /\ call.indexed_deltas[1][1] = 1
    /\ call.indexed_deltas[2][1] = 0
    /\ call.ret.deltas[1].kind = "modified"
    /\ call.ret.deltas[1].token_diffs # <<>>
    /\ call.ret.deltas[2].kind = "inserted"

====
